---- MODULE Spec2Model ----
(***************************************************************************)
(* LinkedIn company tracker: the reconciliation pass (run_scrape), the     *)
(* record store adapter (SheetsService), the remote client                 *)
(* (get_followed_companies) and the run trigger (MainWindow._start_run).   *)
(*                                                                         *)
(* Python strings are modelled as sequences of one-character strings, so   *)
(* that lower(), strip(), split() and the HYPERLINK cell encoding are      *)
(* computed as the code computes them.                                     *)
(***************************************************************************)
EXTENDS Integers, Sequences, FiniteSets, TLC

(***************************************************************************)
(* Python string primitives                                                *)
(***************************************************************************)
UpperLetters ==
    <<"A","B","C","D","E","F","G","H","I","J","K","L","M",
      "N","O","P","Q","R","S","T","U","V","W","X","Y","Z">>

LowerLetters ==
    <<"a","b","c","d","e","f","g","h","i","j","k","l","m",
      "n","o","p","q","r","s","t","u","v","w","x","y","z">>

UpperSet == {UpperLetters[i] : i \in 1..Len(UpperLetters)}
LowerOf ==
    [c \in UpperSet |-> LowerLetters[CHOOSE i \in 1..Len(UpperLetters) : UpperLetters[i] = c]]

\* str.lower() on one character
LowerChar(c) == IF c \in UpperSet THEN LowerOf[c] ELSE c

\* str.lower()
Lower(s) == [i \in 1..Len(s) |-> LowerChar(s[i])]

\* the first position at or after i that holds no blank (Len(s) + 1 if none)
RECURSIVE SkipBlanks(_, _)
SkipBlanks(s, i) ==
    IF i > Len(s) \/ s[i] # " " THEN i ELSE SkipBlanks(s, i + 1)

\* the last position at or before i that holds no blank (0 if none)
RECURSIVE SkipBlanksBack(_, _)
SkipBlanksBack(s, i) ==
    IF i < 1 \/ s[i] # " " THEN i ELSE SkipBlanksBack(s, i - 1)

\* str.strip(): drop leading and trailing blanks
Strip(s) ==
    IF s = <<>> \/ (s[1] # " " /\ s[Len(s)] # " ") THEN s
    ELSE SubSeq(s, SkipBlanks(s, 1), SkipBlanksBack(s, Len(s)))

\* str.lstrip()
LStrip(s) ==
    IF s = <<>> \/ s[1] # " " THEN s ELSE SubSeq(s, SkipBlanks(s, 1), Len(s))

\* the first position at or after i that holds the character c (Len(s) + 1 if none)
RECURSIVE FindChar(_, _, _)
FindChar(s, c, i) ==
    IF i > Len(s) \/ s[i] = c THEN i ELSE FindChar(s, c, i + 1)

\* str.startswith(pre)
StartsWith(s, pre) ==
    /\ Len(pre) <= Len(s)
    /\ SubSeq(s, 1, Len(pre)) = pre

\* positions (1-based) at which sub occurs in s
Occurrences(s, sub) ==
    {i \in 1..(Len(s) - Len(sub) + 1) :
        s[i] = sub[1] /\ SubSeq(s, i, i + Len(sub) - 1) = sub}

\* sub in s
Contains(s, sub) == Occurrences(s, sub) # {}

\* s.split(sep)[-1]: what follows the last occurrence of sep (s itself if none)
SplitLast(s, sep) ==
    LET occ == Occurrences(s, sep)
    IN  IF occ = {} THEN s
        ELSE LET last == CHOOSE i \in occ : \A j \in occ : i >= j
             IN  SubSeq(s, last + Len(sep), Len(s))

\* s.split(sep)[0]: what precedes the first occurrence of sep (s itself if none)
SplitFirst(s, sep) ==
    LET occ == Occurrences(s, sep)
    IN  IF occ = {} THEN s
        ELSE LET first == CHOOSE i \in occ : \A j \in occ : i <= j
             IN  SubSeq(s, 1, first - 1)

\* s.replace('"', '""')
RECURSIVE DoubleQuotes(_)
DoubleQuotes(s) ==
    LET q == FindChar(s, "\"", 1)
    IN  IF q > Len(s) THEN s
        ELSE SubSeq(s, 1, q - 1) \o <<"\"", "\"">> \o DoubleQuotes(SubSeq(s, q + 1, Len(s)))

\* s.replace('""', '"'): non-overlapping, left to right
RECURSIVE UndoubleQuotes(_)
UndoubleQuotes(s) ==
    LET q == FindChar(s, "\"", 1)
    IN  IF q >= Len(s) THEN s
        ELSE IF s[q + 1] = "\""
             THEN SubSeq(s, 1, q) \o UndoubleQuotes(SubSeq(s, q + 2, Len(s)))
             ELSE SubSeq(s, 1, q) \o UndoubleQuotes(SubSeq(s, q + 1, Len(s)))

(***************************************************************************)
(* String constants of the program                                         *)
(***************************************************************************)
HTTP == <<"h","t","t","p">>
IN_SEGMENT == <<"/","i","n","/">>
COMPANY_SEGMENT == <<"/","c","o","m","p","a","n","y","/">>
SLASH == <<"/">>
QUESTION == <<"?">>
HOST == <<"h","t","t","p","s",":","/","/","w","w","w",".",
          "l","i","n","k","e","d","i","n",".","c","o","m">>

LINKEDIN_PROFILE_BASE == HOST \o IN_SEGMENT
LINKEDIN_COMPANY_BASE == HOST \o COMPANY_SEGMENT
HYPERLINK_PREFIX == <<"=","H","Y","P","E","R","L","I","N","K","(">>
INITIALLY_SCRAPED_YES == <<"Y","e","s">>
INITIALLY_SCRAPED_NO == <<"N","o">>
AUTO_SCRAPE_HOUR == 9
AUTO_SCRAPE_MINUTE == 0
YES_LOWER == <<"y","e","s">>

(***************************************************************************)
(* Key normalisation                                                       *)
(***************************************************************************)
\* scrape_runner._get_username_from_profile_url
_get_username_from_profile_url(url_or_slug) ==
    LET s == Lower(Strip(url_or_slug))
    IN  IF s = <<>> THEN <<>>
        ELSE IF StartsWith(s, HTTP) /\ Contains(s, IN_SEGMENT)
             THEN SplitFirst(SplitFirst(SplitLast(s, IN_SEGMENT), SLASH), QUESTION)
             ELSE s

\* sheets_service._normalize_profile_url
_normalize_profile_url(url_or_slug) ==
    LET s == Lower(Strip(url_or_slug))
    IN  IF s = <<>> THEN <<>>
        ELSE IF StartsWith(s, HTTP) /\ Contains(s, IN_SEGMENT)
             THEN SplitFirst(SplitFirst(SplitLast(s, IN_SEGMENT), SLASH), QUESTION)
             ELSE s

\* sheets_service._normalize_company_url
_normalize_company_url(url_or_slug) ==
    LET s == Lower(Strip(url_or_slug))
    IN  IF s = <<>> THEN <<>>
        ELSE IF StartsWith(s, HTTP) /\ Contains(s, COMPANY_SEGMENT)
             THEN SplitFirst(SplitFirst(SplitLast(s, COMPANY_SEGMENT), SLASH), QUESTION)
             ELSE s

\* sheets_service._row_key_by_url
_row_key_by_url(company_url, follower_url) ==
    <<_normalize_company_url(company_url), _normalize_profile_url(follower_url)>>

(***************************************************************************)
(* HYPERLINK cell encoding                                                 *)
(***************************************************************************)
\* sheets_service._hyperlink_formula
_hyperlink_formula(url, label) ==
    HYPERLINK_PREFIX \o <<"\"">> \o DoubleQuotes(url) \o <<"\"", ",", " ", "\"">>
        \o DoubleQuotes(label) \o <<"\"", ")">>

\* the scan "while pos < len(rest)" of _parse_hyperlink_cell, 0-based pos:
\* stops at the first quote that is not followed by another quote
RECURSIVE LabelEnd(_, _)
LabelEnd(rest, pos) ==
    IF pos >= Len(rest) THEN pos
    ELSE IF rest[pos + 1] = "\""
         THEN IF pos + 1 < Len(rest) /\ rest[pos + 2] = "\""
              THEN LabelEnd(rest, pos + 2)
              ELSE pos
         ELSE LabelEnd(rest, pos + 1)

\* sheets_service._parse_hyperlink_cell: <<url, label>>
_parse_hyperlink_cell(cell_value) ==
    LET s == Strip(cell_value)
    IN  IF ~StartsWith(s, HYPERLINK_PREFIX) THEN <<<<>>, s>>
        ELSE
        LET first_quote == FindChar(s, "\"", 1)
        IN  IF first_quote > Len(s) THEN <<<<>>, s>>
            ELSE
            LET \* 1-based position of the quote that closes the url (or one past the end)
                end_url == FindChar(s, "\"", first_quote + 1)
                url == SubSeq(s, first_quote + 1, end_url - 1)
                rest1 == LStrip(SubSeq(s, end_url + 1, Len(s)))
            IN  IF ~StartsWith(rest1, <<",">>) THEN <<url, url>>
                ELSE
                LET rest == LStrip(Tail(rest1))
                IN  IF ~StartsWith(rest, <<"\"">>) THEN <<url, url>>
                    ELSE <<url, UndoubleQuotes(SubSeq(rest, 2, LabelEnd(rest, 1)))>>

(***************************************************************************)
(* Inputs: the profiles a user may add, the companies the remote API may   *)
(* report, the day of the pass                                             *)
(***************************************************************************)
\* "https://www.linkedin.com/in/John-Doe/"
ProfileJohnUrl == LINKEDIN_PROFILE_BASE \o <<"J","o","h","n","-","D","o","e","/">>
\* "john-doe": the bare handle of the same profile
ProfileJohnSlug == <<"j","o","h","n","-","d","o","e">>
\* "jane": a bare handle, as an imported CSV may hold
ProfileJaneSlug == <<"j","a","n","e">>
NameJohn == <<"J","o","h","n">>

\* display name "Acme", URL slug "acme": the lower-cased name equals the slug
CompanyAcme ==
    [name |-> <<"A","c","m","e">>,
     url |-> LINKEDIN_COMPANY_BASE \o <<"a","c","m","e","/">>]
\* a second company with the same display name "Acme", URL slug "acme-2"
CompanyAcme2 ==
    [name |-> <<"A","c","m","e">>,
     url |-> LINKEDIN_COMPANY_BASE \o <<"a","c","m","e","-","2","/">>]
\* a company the API reports without a URL
CompanyGamma == [name |-> <<"G","a","m","m","a">>, url |-> <<>>]

(***************************************************************************)
(* Dates.  A date cell is blank, a text "YYYY-MM-DD" or a day serial (what  *)
(* the spreadsheet holds after a date was entered and what a read with the *)
(* FORMULA render option returns).                                         *)
(***************************************************************************)
Blank == [kind |-> "blank", y |-> 0, m |-> 0, d |-> 0, n |-> 0]
DateText(y, m, d) == [kind |-> "text", y |-> y, m |-> m, d |-> d, n |-> 0]
DateSerial(n) == [kind |-> "serial", y |-> 0, m |-> 0, d |-> 0, n |-> n]

\* days from 1970-01-01 to the civil date y-m-d (proleptic Gregorian calendar)
DaysFromCivil(y, m, d) ==
    LET yy == IF m <= 2 THEN y - 1 ELSE y
        era == yy \div 400
        yoe == yy - era * 400
        doy == (153 * (IF m > 2 THEN m - 3 ELSE m + 9) + 2) \div 5 + d - 1
        doe == yoe * 365 + yoe \div 4 - yoe \div 100 + doy
    IN  era * 146097 + doe - 719468

\* the civil date that lies z days after 1970-01-01
CivilFromDays(z) ==
    LET zz == z + 719468
        era == zz \div 146097
        doe == zz - era * 146097
        yoe == (doe - doe \div 1460 + doe \div 36524 - doe \div 146096) \div 365
        doy == doe - (365 * yoe + yoe \div 4 - yoe \div 100)
        mp == (5 * doy + 2) \div 153
        d == doy - (153 * mp + 2) \div 5 + 1
        m == IF mp < 10 THEN mp + 3 ELSE mp - 9
        y == yoe + era * 400 + (IF m <= 2 THEN 1 ELSE 0)
    IN  DateText(y, m, d)

\* days from 1970-01-01 back to excel_epoch = datetime(1899, 12, 30)
EXCEL_EPOCH_OFFSET == 25569

\* scrape_runner.excel_serial_to_date: a number becomes a calendar date,
\* anything float() rejects is returned as it is
excel_serial_to_date(serial_number) ==
    IF serial_number.kind = "serial"
    THEN CivilFromDays(serial_number.n - EXCEL_EPOCH_OFFSET)
    ELSE serial_number

\* what the sheet holds after a value was written with
\* value_input_option="USER_ENTERED": a text date is stored as its day serial
UserEntered(v) ==
    IF v.kind = "text" THEN DateSerial(DaysFromCivil(v.y, v.m, v.d) + EXCEL_EPOCH_OFFSET)
    ELSE v

\* the day of the pass, _format_date(datetime.now())
Today == DateText(2026, 2, 24)

(***************************************************************************)
(* Headers of the sheets (config/constants.py)                             *)
(***************************************************************************)
PROFILES_HEADERS == <<"Name", "LinkedIn Profile", "Initially Scraped">>
OVERALL_HEADERS ==
    <<"Company Name", "Follower Name", "Initial Scrape Date", "Date Followed",
      "Company URL", "Follower URL">>

(***************************************************************************)
(* State                                                                   *)
(***************************************************************************)
VARIABLES
    \* the spreadsheet: header row and data rows of each sheet. Data row i of
    \* a sheet is row i + 1 of the sheet (row 1 is the header).
    profilesHeader,     \* row 1 of Profiles
    profilesSheet,      \* Seq of <<name, profile, initially_scraped>>
    overallHeader,      \* row 1 of Overall
    overallSheet,       \* Seq of <<company_cell, follower_cell, initial_scrape_date, date_followed>>
    newFollowsSheet,    \* Seq of <<company_cell, follower_cell, date_followed>>
    newUnfollowsSheet,  \* Seq of <<company_cell, follower_cell, initial_scrape_date, date_followed, unfollowed_date>>
    \* MainWindow and ScrapeWorker
    running,            \* MainWindow._running
    pc,                 \* position of the worker: "idle", "loop", "returned", "raised", "emitted"
    exc,                \* the exception that left run_scrape ("" if none)
    signals,            \* signals the worker has emitted, in order
    \* locals of run_scrape
    profiles,           \* the list get_profiles() returned
    idx,                \* 1-based position of the for loop in profiles
    new_follows_list,
    new_unfollows_list,
    profiles_processed,
    statusLog,          \* the on_status calls, in order
    \* history
    passes,             \* passes started so far
    edits,              \* add-profile operations so far
    iters,              \* loop iterations so far
    faults,             \* store calls that were answered with failures so far
    last,               \* what the latest loop iteration did, with the sheets before it
    hist,               \* per follower key: the fetch and outcome of its latest iteration
    \* locals of get_followed_companies
    client_pc,          \* position: "idle", "post" (line 58), "handle" (line 64), "page" (line 116), "done"
    username,
    page,
    total_pages,
    attempt,
    response,           \* the local `response`; unbound until a request is answered
    data,
    results,
    client_exc,         \* the exception that left get_followed_companies ("" if none)
    limited,            \* attempts for the current page that a request answered with 429
    trace,              \* what the network did during the call (history)
    \* MainWindow._start_run on the UI thread and on the scheduler's thread
    _running,           \* MainWindow._running as the two threads see it
    thread_pc,          \* per thread: "idle", or "checked" between line 719 and line 721
    workers,            \* ScrapeWorker threads started and not yet finished
    finished,           \* finished_with_result signals queued for the UI thread
    _selected_days,     \* ScrapeScheduler._selected_days
    job,                \* whether the scheduler holds the auto_scrape job
    started,            \* workers started so far
    sched,              \* time of day: ScrapeScheduler._hour and ._minute, the time of
                        \* the job's CronTrigger, the time the status bar reports, the
                        \* time the QTimeEdit shows, the exception of the latest slot
    \* a direct call of the adapter
    call                \* the latest call: its arguments, the sheet before it, its store requests

storeVars ==
    <<profilesHeader, profilesSheet, overallHeader, overallSheet,
      newFollowsSheet, newUnfollowsSheet>>
passVars ==
    <<profiles, idx, new_follows_list, new_unfollows_list, profiles_processed, statusLog>>
counters == <<passes, edits, iters, faults>>
runVars == <<storeVars, running, pc, exc, signals, passVars, counters, last, hist>>
clientVars ==
    <<client_pc, username, page, total_pages, attempt, response, data, results, client_exc,
      limited, trace>>
uiVars == <<_running, thread_pc, workers, finished, _selected_days, job, started, sched>>
callVars == <<call>>
vars == <<runVars, clientVars, uiVars, callVars>>

(***************************************************************************)
(* Record store adapter (SheetsService)                                    *)
(***************************************************************************)
\* max_retries of _batch_update_with_retry, _run_ws_write_with_retry and
\* _get_all_values_from_sheet
BATCH_UPDATE_MAX_RETRIES == 12
WS_WRITE_MAX_RETRIES == 12
GET_VALUES_MAX_RETRIES == 12

\* a worksheet write that logs and returns when its attempts are exhausted
_run_ws_write_giving_up(nfail) ==
    IF nfail < WS_WRITE_MAX_RETRIES
    THEN [ok |-> TRUE, attempts |-> nfail + 1, exc |-> ""]
    ELSE [ok |-> FALSE, attempts |-> WS_WRITE_MAX_RETRIES, exc |-> ""]

\* _run_ws_write_with_retry, the store failing the first nfail attempts:
\* the operation is applied once, or RuntimeError is raised
_run_ws_write_with_retry(nfail) ==
    IF nfail < WS_WRITE_MAX_RETRIES
    THEN [ok |-> TRUE, attempts |-> nfail + 1, exc |-> ""]
    ELSE [ok |-> FALSE, attempts |-> WS_WRITE_MAX_RETRIES, exc |-> "RuntimeError"]

\* _batch_update_with_retry: the requests are applied once, or the error is
\* logged and swallowed
_batch_update_with_retry(nfail) ==
    IF nfail < BATCH_UPDATE_MAX_RETRIES
    THEN [ok |-> TRUE, attempts |-> nfail + 1, exc |-> ""]
    ELSE [ok |-> FALSE, attempts |-> BATCH_UPDATE_MAX_RETRIES, exc |-> ""]

\* _get_all_values_from_sheet: (ws, rows), or (None, []) when every attempt failed
_get_all_values_from_sheet(header, sheet, nfail) ==
    IF nfail < GET_VALUES_MAX_RETRIES
    THEN [ws |-> TRUE, header |-> header, rows |-> sheet]
    ELSE [ws |-> FALSE, header |-> <<>>, rows |-> <<>>]

\* the sequence seq without its elements at the positions not in keep
AtPositions(seq, keep) ==
    [k \in 1..Cardinality(keep) |->
        seq[CHOOSE i \in keep : Cardinality({j \in keep : j <= i}) = k]]

\* get_profiles without its test of the header row
get_profiles_any_header(nfail) ==
    LET got == _get_all_values_from_sheet(profilesHeader, profilesSheet, nfail)
    IN  IF ~got.ws THEN <<>>
        ELSE [i \in 1..Len(got.rows) |->
                 <<Strip(got.rows[i][2]), Strip(got.rows[i][1]), Strip(got.rows[i][3])>>]

\* SheetsService.get_profiles: list of <<linkedin_profile, name, initially_scraped>>
get_profiles(nfail) ==
    LET got == _get_all_values_from_sheet(profilesHeader, profilesSheet, nfail)
    IN  IF ~got.ws \/ got.header # PROFILES_HEADERS THEN <<>>
        ELSE LET stripped == [i \in 1..Len(got.rows) |->
                                 <<Strip(got.rows[i][2]), Strip(got.rows[i][1]),
                                   Strip(got.rows[i][3])>>]
             IN  AtPositions(stripped,
                             {i \in 1..Len(stripped) : stripped[i][1] # <<>>})

\* SheetsService.profile_exists
profile_exists(url_or_slug, nfail) ==
    LET key == _normalize_profile_url(url_or_slug)
        ps == get_profiles(nfail)
    IN  /\ key # <<>>
        /\ \E i \in 1..Len(ps) : _normalize_profile_url(ps[i][1]) = key

\* the cell written for a (name, url) pair: a HYPERLINK formula when there is a url
Cell(url, label) == IF url # <<>> THEN _hyperlink_formula(url, label) ELSE label

\* the record get_overall_records builds from one data row
OverallRecordOf(row) ==
    LET c == _parse_hyperlink_cell(row[1])
        f == _parse_hyperlink_cell(row[2])
    IN  [Company_Name |-> IF c[2] = <<>> /\ c[1] = <<>> THEN Strip(row[1]) ELSE c[2],
         Company_URL |-> c[1],
         Follower_Name |-> IF f[2] = <<>> /\ f[1] = <<>> THEN Strip(row[2]) ELSE f[2],
         Follower_URL |-> f[1],
         Initial_Scrape_Date |-> row[3],
         Date_Followed |-> row[4]]

\* SheetsService.get_overall_records
get_overall_records(nfail) ==
    LET got == _get_all_values_from_sheet(overallHeader, overallSheet, nfail)
    IN  IF ~got.ws \/ SubSeq(got.header, 1, 4) # SubSeq(OVERALL_HEADERS, 1, 4) THEN <<>>
        ELSE LET recs == [i \in 1..Len(got.rows) |-> OverallRecordOf(got.rows[i])]
                 NonEmpty(r) == \/ r.Company_Name # <<>> \/ r.Company_URL # <<>>
                                \/ r.Follower_Name # <<>> \/ r.Follower_URL # <<>>
             IN  AtPositions(recs, {i \in 1..Len(recs) : NonEmpty(recs[i])})

\* SheetsService.get_overall_set: the membership index over the records
get_overall_set(records) ==
    {_row_key_by_url(records[i].Company_URL, records[i].Follower_URL) : i \in 1..Len(records)}

\* the values append_overall_batch writes for its records
\* (company_name, company_url, follower_name, follower_url, initial_scrape_date, date_followed)
append_overall_batch(sheet, records) ==
    sheet \o [i \in 1..Len(records) |->
                <<Cell(records[i][2], records[i][1]), Cell(records[i][4], records[i][3]),
                  UserEntered(records[i][5]), UserEntered(records[i][6])>>]

\* append_new_follows_batch
\* (company_name, company_url, follower_name, follower_url, date_followed)
append_new_follows_batch(sheet, records) ==
    sheet \o [i \in 1..Len(records) |->
                <<Cell(records[i][2], records[i][1]), Cell(records[i][4], records[i][3]),
                  UserEntered(records[i][5])>>]

\* append_new_unfollows_batch
\* (company_name, company_url, follower_name, follower_url, initial_scrape_date,
\*  date_followed, unfollowed_date)
append_new_unfollows_batch(sheet, records) ==
    sheet \o [i \in 1..Len(records) |->
                <<Cell(records[i][2], records[i][1]), Cell(records[i][4], records[i][3]),
                  UserEntered(records[i][5]), UserEntered(records[i][6]),
                  UserEntered(records[i][7])>>]

\* one deleteDimension request for sheet row r (1-based, row 1 is the header)
DeleteSheetRow(sheet, r) ==
    [i \in 1..(Len(sheet) - 1) |-> IF i < r - 1 THEN sheet[i] ELSE sheet[i + 1]]

\* the positions of a set, largest first: sorted(..., reverse=True)
SortedDescending(S) ==
    [k \in 1..Cardinality(S) |-> CHOOSE i \in S : Cardinality({j \in S : j >= i}) = k]

\* attempts of remove_from_overall_by_row_indices to get the worksheet id
SHEET_ID_MAX_RETRIES == 12

\* the deleteDimension requests of one batch_update, applied in their order; a
\* request for a row below the last data row removes no data
RECURSIVE ApplyDeleteRequests(_, _)
ApplyDeleteRequests(sheet, rows) ==
    IF rows = <<>> THEN sheet
    ELSE ApplyDeleteRequests(IF Head(rows) - 1 <= Len(sheet)
                             THEN DeleteSheetRow(sheet, Head(rows)) ELSE sheet,
                             Tail(rows))

\* the positions of a set, smallest first
SortedAscending(S) ==
    [k \in 1..Cardinality(S) |-> CHOOSE i \in S : Cardinality({j \in S : j <= i}) = k]

\* remove_from_overall_by_row_indices with its requests in ascending row order
remove_from_overall_by_row_indices_ascending(sheet, one_based_rows, nsheet, nfail) ==
    LET unique_rows ==
            SortedAscending({r \in {one_based_rows[i] : i \in 1..Len(one_based_rows)} :
                               r > 1})
        issued == unique_rows # <<>> /\ nsheet < SHEET_ID_MAX_RETRIES
    IN  [requests |-> IF issued THEN unique_rows ELSE <<>>,
         batches |-> IF issued THEN 1 ELSE 0,
         sheet |-> IF issued /\ _batch_update_with_retry(nfail).ok
                   THEN ApplyDeleteRequests(sheet, unique_rows) ELSE sheet]

\* SheetsService.remove_from_overall_by_row_indices, the lookup of the worksheet
\* failing nsheet attempts and the batch update nfail attempts: the rows of its
\* requests in their order, the batch_update calls it makes (retries of the
\* same batch not counted), the Overall data rows afterwards
remove_from_overall_by_row_indices(sheet, one_based_rows, nsheet, nfail) ==
    LET unique_rows ==
            SortedDescending({r \in {one_based_rows[i] : i \in 1..Len(one_based_rows)} :
                                r > 1})
        issued == unique_rows # <<>> /\ nsheet < SHEET_ID_MAX_RETRIES
    IN  [requests |-> IF issued THEN unique_rows ELSE <<>>,
         batches |-> IF issued THEN 1 ELSE 0,
         sheet |-> IF issued /\ _batch_update_with_retry(nfail).ok
                   THEN ApplyDeleteRequests(sheet, unique_rows) ELSE sheet]

\* SheetsService.remove_from_overall_by_row_index: the Overall data rows afterwards
remove_from_overall_by_row_index(sheet, one_based_row, nfail) ==
    remove_from_overall_by_row_indices(sheet, <<one_based_row>>, 0, nfail).sheet

\* a batch append that writes its rows one request each
BatchAppendWritePerRow(records, nfail) ==
    [ok |-> nfail < WS_WRITE_MAX_RETRIES, attempts |-> Len(records), exc |-> ""]

\* the write of append_overall_batch, append_new_follows_batch and
\* append_new_unfollows_batch: none for an empty list, else one append_rows
\* call, repeated while it fails
BatchAppendWrite(records, nfail) ==
    IF records = <<>> THEN [ok |-> TRUE, attempts |-> 0, exc |-> ""]
    ELSE _run_ws_write_with_retry(nfail)

\* SheetsService.set_profile_initially_scraped: the Profiles data rows afterwards
\* and whether the write raised. nread, nwrite: failing attempts of the read and
\* of the update_cell
set_profile_initially_scraped(sheet, header, url_or_slug, nread, nwrite) ==
    LET key == _normalize_profile_url(url_or_slug)
        got == _get_all_values_from_sheet(header, sheet, nread)
        hits == {i \in 1..Len(got.rows) : _normalize_profile_url(got.rows[i][2]) = key}
    IN  IF key = <<>> \/ ~got.ws \/ hits = {}
        THEN [sheet |-> sheet, exc |-> "", calls |-> 0]
        ELSE LET i == CHOOSE h \in hits : \A j \in hits : h <= j
                 w == _run_ws_write_with_retry(nwrite)
             IN  IF w.ok
                 THEN [sheet |-> [sheet EXCEPT ![i][3] = INITIALLY_SCRAPED_YES],
                       exc |-> "", calls |-> 1]
                 ELSE [sheet |-> sheet, exc |-> w.exc, calls |-> 1]

(***************************************************************************)
(* Bounds of the model                                                     *)
(***************************************************************************)
\* passes started in one behaviour
MaxPasses == 3
\* add-profile operations in one behaviour (a removal needs a row to remove)
MaxEdits == 2
\* loop iterations (profiles processed) in one behaviour
MaxIterations == 3
\* consecutive failing attempts the store may answer one call with
MaxFail == 12
\* store calls in one behaviour that the store answers with failures
MaxFaults == 1
\* companies the remote API reports for one profile
MaxFetch == 2

(***************************************************************************)
(* Inputs of a loop iteration: the fetch outcome and the store's failures  *)
(***************************************************************************)
CompanyUniverse == <<CompanyAcme, CompanyAcme2, CompanyGamma>>

\* the lists the fetch may return: the sub-lists of CompanyUniverse, in order
FetchLists ==
    {AtPositions(CompanyUniverse, S) :
        S \in {T \in SUBSET (1..Len(CompanyUniverse)) : Cardinality(T) <= MaxFetch}}

\* get_followed_companies raises LinkedInAPIError, or another exception
FetchErrors == {"LinkedInAPIError", "Exception"}

\* the store calls of one loop iteration that may fail
InitialSites == {"append_overall", "flag_read", "flag_write"}
IncrementalSites ==
    {"read_overall", "append_overall", "append_follows", "append_unfollows", "delete"}
Sites == InitialSites \cup IncrementalSites

\* number of failing attempts per call site: no failure, or one site failing
\* MaxFail times
NoFault == [s \in Sites |-> 0]
FaultPlans(sites) ==
    {NoFault} \cup
    (IF faults < MaxFaults
     THEN {[NoFault EXCEPT ![s] = MaxFail] : s \in sites}
     ELSE {})
\* the failing attempts a call may meet
FailChoices == IF faults < MaxFaults THEN {0, MaxFail} ELSE {0}
Exhausted(plan) == \E s \in Sites : plan[s] >= WS_WRITE_MAX_RETRIES

(***************************************************************************)
(* run_scrape: one iteration of the loop over the profiles                 *)
(***************************************************************************)
\* follower_url of an iteration (profile_display.startswith("http") is case-sensitive)
FollowerUrl(profile_display) ==
    IF StartsWith(profile_display, HTTP) THEN profile_display
    ELSE LINKEDIN_PROFILE_BASE \o _get_username_from_profile_url(profile_display) \o SLASH

\* display_name of an iteration
DisplayName(profile_display, follower_name) ==
    IF Strip(follower_name) # <<>> THEN Strip(follower_name) ELSE FollowerUrl(profile_display)

\* (c.get("name") or c.get("url", "")).strip()
CompanyName(c) == Strip(IF c.name # <<>> THEN c.name ELSE c.url)
\* (c.get("url") or "").strip()
CompanyUrl(c) == Strip(c.url)

\* the loop "for row_index in sorted(rows_to_remove, reverse=True)":
\* one remove_from_overall_by_row_index call per row
RECURSIVE RemoveEach(_, _, _)
RemoveEach(sheet, rows_desc, nfail) ==
    IF rows_desc = <<>> THEN sheet
    ELSE RemoveEach(remove_from_overall_by_row_index(sheet, Head(rows_desc), nfail),
                    Tail(rows_desc), nfail)

\* an initial scrape that also writes every fetched company to New Follows
InitialBranchReportingFollows(t, companies, plan) ==
    [overall |-> append_overall_batch(overallSheet,
                    [i \in 1..Len(companies) |->
                        <<CompanyName(companies[i]), CompanyUrl(companies[i]),
                          DisplayName(t[1], t[2]), FollowerUrl(t[1]), Today, Blank>>]),
     follows |-> append_new_follows_batch(newFollowsSheet,
                    [i \in 1..Len(companies) |->
                        <<CompanyName(companies[i]), CompanyUrl(companies[i]),
                          DisplayName(t[1], t[2]), FollowerUrl(t[1]), Today>>]),
     unfollows |-> newUnfollowsSheet,
     profilesRows |-> profilesSheet,
     exc |-> "",
     new_follows |-> <<>>,
     new_unfollows |-> <<>>,
     appends |-> IF companies # <<>> THEN 2 ELSE 0,
     deletes |-> 0,
     removed |-> {}]

\* the initial-scrape branch (lines 89-100) for t = <<profile_display, follower_name,
\* initially_scraped>>
InitialBranch(t, companies, plan) ==
    LET follower_url == FollowerUrl(t[1])
        display_name == DisplayName(t[1], t[2])
        overall_records_batch ==
            [i \in 1..Len(companies) |->
                <<CompanyName(companies[i]), CompanyUrl(companies[i]),
                  display_name, follower_url, Today, Blank>>]
        w1 == _run_ws_write_with_retry(plan["append_overall"])
        raised1 == overall_records_batch # <<>> /\ ~w1.ok
        overall1 == IF overall_records_batch # <<>> /\ w1.ok
                    THEN append_overall_batch(overallSheet, overall_records_batch)
                    ELSE overallSheet
        flag == IF raised1 THEN [sheet |-> profilesSheet, exc |-> "", calls |-> 0]
                ELSE set_profile_initially_scraped(profilesSheet, profilesHeader, t[1],
                                                   plan["flag_read"], plan["flag_write"])
    IN  [overall |-> overall1,
         follows |-> newFollowsSheet,
         unfollows |-> newUnfollowsSheet,
         profilesRows |-> flag.sheet,
         exc |-> IF raised1 THEN w1.exc ELSE flag.exc,
         new_follows |-> <<>>,
         new_unfollows |-> <<>>,
         appends |-> IF overall_records_batch # <<>> THEN 1 ELSE 0,
         deletes |-> 0,
         removed |-> {}]

\* lines 104-112: the fetched companies whose key (lower-cased name, follower
\* key) is not in overall_set, in fetch order
NewFollowCompanies(follower_key, companies, overall_set) ==
    AtPositions(companies,
                {i \in 1..Len(companies) :
                    <<Lower(CompanyName(companies[i])), follower_key>> \notin overall_set})

\* lines 104-108, 137-143: the positions in overall_records of the follower's
\* records whose (lower-cased name, follower key) is not in current_set
UnfollowedPositions(follower_key, companies, overall_records) ==
    LET current_set ==
            {<<Lower(CompanyName(companies[i])), follower_key>> :
                i \in {j \in 1..Len(companies) : CompanyName(companies[j]) # <<>>}}
    IN  {k \in 1..Len(overall_records) :
            /\ _get_username_from_profile_url(overall_records[k].Follower_URL) = follower_key
            /\ <<Lower(Strip(overall_records[k].Company_Name)), follower_key>>
                   \notin current_set}

\* new-follow writes that take the Overall rows back when the append to
\* New Follows raises
FollowWritesRollingBack(t, news, plan) ==
    [dicts |-> [i \in 1..Len(news) |->
                  [Company_Name |-> CompanyName(news[i]),
                   Company_URL |-> CompanyUrl(news[i]),
                   Follower_Name |-> DisplayName(t[1], t[2]),
                   Follower_URL |-> FollowerUrl(t[1]),
                   Date_Followed |-> Today]],
     overall |-> IF news # <<>> /\ _run_ws_write_with_retry(plan["append_overall"]).ok
                                /\ _run_ws_write_with_retry(plan["append_follows"]).ok
                 THEN append_overall_batch(overallSheet,
                         [i \in 1..Len(news) |->
                             <<CompanyName(news[i]), CompanyUrl(news[i]),
                               DisplayName(t[1], t[2]), FollowerUrl(t[1]), Blank, Today>>])
                 ELSE overallSheet,
     follows |-> IF news # <<>> /\ _run_ws_write_with_retry(plan["append_overall"]).ok
                                /\ _run_ws_write_with_retry(plan["append_follows"]).ok
                 THEN append_new_follows_batch(newFollowsSheet,
                         [i \in 1..Len(news) |->
                             <<CompanyName(news[i]), CompanyUrl(news[i]),
                               DisplayName(t[1], t[2]), FollowerUrl(t[1]), Today>>])
                 ELSE newFollowsSheet,
     exc |-> IF news = <<>> THEN ""
             ELSE IF ~_run_ws_write_with_retry(plan["append_overall"]).ok
                  THEN _run_ws_write_with_retry(plan["append_overall"]).exc
             ELSE IF ~_run_ws_write_with_retry(plan["append_follows"]).ok
                  THEN _run_ws_write_with_retry(plan["append_follows"]).exc
             ELSE "",
     appends |-> IF news = <<>> THEN 0
                 ELSE IF _run_ws_write_with_retry(plan["append_overall"]).ok THEN 2 ELSE 1]

\* lines 113-134: the rows and dicts built for the new follows, and the two appends
FollowWrites(t, news, plan) ==
    LET follower_url == FollowerUrl(t[1])
        display_name == DisplayName(t[1], t[2])
        new_overall_batch ==
            [i \in 1..Len(news) |->
                <<CompanyName(news[i]), CompanyUrl(news[i]), display_name, follower_url,
                  Blank, Today>>]
        new_follows_batch ==
            [i \in 1..Len(news) |->
                <<CompanyName(news[i]), CompanyUrl(news[i]), display_name, follower_url,
                  Today>>]
        w1 == _run_ws_write_with_retry(plan["append_overall"])
        w2 == _run_ws_write_with_retry(plan["append_follows"])
    IN  [dicts |-> [i \in 1..Len(news) |->
                      [Company_Name |-> CompanyName(news[i]),
                       Company_URL |-> CompanyUrl(news[i]),
                       Follower_Name |-> display_name, Follower_URL |-> follower_url,
                       Date_Followed |-> Today]],
         overall |-> IF news # <<>> /\ w1.ok
                     THEN append_overall_batch(overallSheet, new_overall_batch)
                     ELSE overallSheet,
         follows |-> IF news # <<>> /\ w1.ok /\ w2.ok
                     THEN append_new_follows_batch(newFollowsSheet, new_follows_batch)
                     ELSE newFollowsSheet,
         exc |-> IF news = <<>> THEN ""
                 ELSE IF ~w1.ok THEN w1.exc
                 ELSE IF ~w2.ok THEN w2.exc ELSE "",
         appends |-> IF news = <<>> THEN 0 ELSE IF w1.ok THEN 2 ELSE 1]

\* lines 144-155: the records handed to append_new_unfollows_batch for the
\* Overall records olds that are removed
NewUnfollowsBatch(display_name, olds) ==
    [i \in 1..Len(olds) |->
        <<olds[i].Company_Name, olds[i].Company_URL, display_name,
          olds[i].Follower_URL, olds[i].Initial_Scrape_Date,
          excel_serial_to_date(olds[i].Date_Followed), Today>>]

\* lines 136-166: the rows and dicts built for the unfollows, the append and
\* the deletes, one call per row, bottom row first
UnfollowWrites(t, overall_records, gone, overall1, plan) ==
    LET display_name == DisplayName(t[1], t[2])
        olds == AtPositions(overall_records, gone)
        new_unfollows_batch == NewUnfollowsBatch(display_name, olds)
        \* rows_to_remove: row_index + 2 for the 0-based row_index = k - 1
        rows_to_remove == {k + 1 : k \in gone}
        w3 == _run_ws_write_with_retry(plan["append_unfollows"])
        raised3 == gone # {} /\ ~w3.ok
    IN  [dicts |-> [i \in 1..Len(olds) |->
                      [Company_Name |-> olds[i].Company_Name,
                       Company_URL |-> olds[i].Company_URL,
                       Follower_Name |-> olds[i].Follower_Name,
                       Follower_URL |-> olds[i].Follower_URL,
                       Initial_Scrape_Date |-> olds[i].Initial_Scrape_Date,
                       Date_Followed |-> olds[i].Date_Followed,
                       Unfollowed_Date |-> Today]],
         unfollows |-> IF gone # {} /\ w3.ok
                       THEN append_new_unfollows_batch(newUnfollowsSheet, new_unfollows_batch)
                       ELSE newUnfollowsSheet,
         overall |-> IF raised3 THEN overall1
                     ELSE RemoveEach(overall1, SortedDescending(rows_to_remove),
                                     plan["delete"]),
         exc |-> IF raised3 THEN w3.exc ELSE "",
         appends |-> IF gone # {} THEN 1 ELSE 0,
         removed |-> IF raised3 THEN {} ELSE rows_to_remove]

\* the result of the incremental branch (lines 101-166) from the result f of
\* its new-follow part and the result u of its unfollow part, which is not
\* reached when an append of the first part raised
IncrementalBranch(f, u) ==
    IF f.exc # ""
    THEN [overall |-> f.overall, follows |-> f.follows, unfollows |-> newUnfollowsSheet,
          profilesRows |-> profilesSheet, exc |-> f.exc, new_follows |-> f.dicts,
          new_unfollows |-> <<>>, appends |-> f.appends, deletes |-> 0, removed |-> {}]
    ELSE [overall |-> u.overall, follows |-> f.follows, unfollows |-> u.unfollows,
          profilesRows |-> profilesSheet, exc |-> u.exc, new_follows |-> f.dicts,
          new_unfollows |-> u.dicts, appends |-> f.appends + u.appends,
          deletes |-> Cardinality(u.removed), removed |-> u.removed]

\* is_initial = initially_scraped.strip().lower() != "yes"
IsInitial(t) == Lower(Strip(t[3])) # YES_LOWER

(***************************************************************************)
(* Profiles: add and remove (SheetsService, called from MainWindow)        *)
(***************************************************************************)
\* what the user enters: a name and a profile URL or handle
AddInputs ==
    {[name |-> NameJohn, profile |-> ProfileJohnUrl],
     [name |-> <<>>, profile |-> ProfileJaneSlug]}
\* what the user enters to remove: a profile URL, a handle or a name
RemoveInputs == {ProfileJohnUrl, ProfileJohnSlug, ProfileJaneSlug, NameJohn}

FollowerKeys == {_normalize_profile_url(i.profile) : i \in AddInputs}

\* SheetsService.add_profile: the Profiles data rows afterwards, the value
\* returned and whether the append raised; nread failing attempts of the read
\* of profile_exists, nfail failing attempts of append_row
add_profile(name, url_or_slug, nread, nfail) ==
    LET normalized == _normalize_profile_url(url_or_slug)
        stripped == Strip(url_or_slug)
        profile_display == IF StartsWith(Lower(stripped), HTTP) THEN stripped
                           ELSE LINKEDIN_PROFILE_BASE \o normalized
    IN  IF normalized = <<>> \/ profile_exists(url_or_slug, nread)
        THEN [sheet |-> profilesSheet, added |-> FALSE, raised |-> FALSE]
        ELSE IF _run_ws_write_with_retry(nfail).ok
             THEN [sheet |-> Append(profilesSheet,
                                    <<Strip(name), profile_display, INITIALLY_SCRAPED_NO>>),
                   added |-> TRUE, raised |-> FALSE]
             ELSE [sheet |-> profilesSheet, added |-> FALSE, raised |-> TRUE]

\* SheetsService.get_profile_url_by_name
get_profile_url_by_name(name) ==
    LET name_key == Lower(Strip(name))
        ps == get_profiles(0)
        hits == {i \in 1..Len(ps) : Lower(Strip(ps[i][2])) = name_key}
    IN  IF name_key = <<>> \/ hits = {} THEN <<>>
        ELSE ps[CHOOSE i \in hits : \A j \in hits : i <= j][1]

\* SheetsService._resolve_to_profile_url (<<>> for None)
_resolve_to_profile_url(identifier) ==
    LET id == Strip(identifier)
        ps == get_profiles(0)
        key == _normalize_profile_url(id)
        hits == {i \in 1..Len(ps) : _normalize_profile_url(ps[i][1]) = key}
    IN  IF id = <<>> THEN <<>>
        ELSE IF profile_exists(id, 0)
             THEN ps[CHOOSE i \in hits : \A j \in hits : i <= j][1]
             ELSE get_profile_url_by_name(id)

\* SheetsService.remove_profile: the first row whose profile normalizes to the
\* key of url_or_slug is deleted, unless the batch update gives up
remove_profile(sheet, url_or_slug, nfail) ==
    LET key == _normalize_profile_url(url_or_slug)
        hits == {i \in 1..Len(sheet) : _normalize_profile_url(sheet[i][2]) = key}
    IN  IF key = <<>> \/ hits = {} \/ ~_batch_update_with_retry(nfail).ok THEN sheet
        ELSE DeleteSheetRow(sheet, (CHOOSE i \in hits : \A j \in hits : i <= j) + 1)

\* a cascade that deletes the rows of every other follower
_delete_rows_of_other_followers(sheet, profile_url_normalized, nfail) ==
    LET to_delete == {i \in 1..Len(sheet) :
                        _normalize_profile_url(_parse_hyperlink_cell(sheet[i][2])[1])
                            # profile_url_normalized}
    IN  IF to_delete = {} \/ ~_batch_update_with_retry(nfail).ok THEN sheet
        ELSE AtPositions(sheet, (1..Len(sheet)) \ to_delete)

\* SheetsService._delete_rows_where_follower_url_matches: one batched delete
\* of every data row whose follower cell holds a URL with the given key
_delete_rows_where_follower_url_matches(sheet, profile_url_normalized, nfail) ==
    LET to_delete == {i \in 1..Len(sheet) :
                        _normalize_profile_url(_parse_hyperlink_cell(sheet[i][2])[1])
                            = profile_url_normalized}
    IN  IF to_delete = {} \/ ~_batch_update_with_retry(nfail).ok THEN sheet
        ELSE AtPositions(sheet, (1..Len(sheet)) \ to_delete)

AddSites == {"exists_read", "append"}
NoAddFault == [s \in AddSites |-> 0]
AddFaultPlans ==
    {NoAddFault} \cup
    (IF faults < MaxFaults
     THEN {[NoAddFault EXCEPT ![s] = MaxFail] : s \in AddSites}
     ELSE {})

RemoveSites == {"profiles", "overall", "follows", "unfollows"}
NoRemoveFault == [s \in RemoveSites |-> 0]
RemoveFaultPlans ==
    {NoRemoveFault} \cup
    (IF faults < MaxFaults
     THEN {[NoRemoveFault EXCEPT ![s] = MaxFail] : s \in RemoveSites}
     ELSE {})

(***************************************************************************)
(* Initial state: an empty spreadsheet with its header rows, no pass       *)
(***************************************************************************)
NoLast ==
    [kind |-> "none", t |-> <<>>, key |-> <<>>, fetch |-> <<>>, err |-> "",
     plan |-> NoFault, exc |-> "", new_follows |-> <<>>, new_unfollows |-> <<>>,
     appends |-> 0, deletes |-> 0, removed |-> {}, before |-> {},
     prev |-> [seen |-> FALSE, incremental |-> FALSE, clean |-> FALSE, fetch |-> <<>>]]

NoHist == [seen |-> FALSE, incremental |-> FALSE, clean |-> FALSE, fetch |-> <<>>]

InitRun ==
    /\ profilesHeader = PROFILES_HEADERS
    /\ profilesSheet = <<>>
    /\ overallHeader = OVERALL_HEADERS
    /\ overallSheet = <<>>
    /\ newFollowsSheet = <<>>
    /\ newUnfollowsSheet = <<>>
    /\ running = FALSE
    /\ pc = "idle"
    /\ exc = ""
    /\ signals = <<>>
    /\ profiles = <<>>
    /\ idx = 0
    /\ new_follows_list = <<>>
    /\ new_unfollows_list = <<>>
    /\ profiles_processed = 0
    /\ statusLog = <<>>
    /\ passes = 0
    /\ edits = 0
    /\ iters = 0
    /\ faults = 0
    /\ last = NoLast
    /\ hist = [k \in FollowerKeys |-> NoHist]

(***************************************************************************)
(* Actions                                                                 *)
(***************************************************************************)
\* MainWindow._on_add / ImportCSVWorker.run -> SheetsService.add_profile
AddProfile ==
    /\ ~running
    /\ pc = "idle"
    /\ edits < MaxEdits
    /\ \E inp \in AddInputs, plan \in AddFaultPlans :
          /\ profilesSheet' =
                add_profile(inp.name, inp.profile, plan["exists_read"], plan["append"]).sheet
          /\ faults' = IF plan = NoAddFault THEN faults ELSE faults + 1
    /\ edits' = edits + 1
    /\ last' = NoLast
    /\ UNCHANGED <<profilesHeader, overallHeader, overallSheet, newFollowsSheet,
                   newUnfollowsSheet, running, pc, exc, signals, passVars, passes, iters,
                   hist>>
    /\ UNCHANGED <<clientVars, uiVars, callVars>>

\* MainWindow._on_remove -> SheetsService.remove_profile_and_related_records
RemoveProfile ==
    /\ ~running
    /\ pc = "idle"
    /\ \E identifier \in RemoveInputs :
       \E profile_url \in {_resolve_to_profile_url(identifier)} \ {<<>>} :
       \E key \in {_normalize_profile_url(profile_url)} :
       \E plan \in RemoveFaultPlans :
          /\ profilesSheet' = remove_profile(profilesSheet, profile_url, plan["profiles"])
          /\ overallSheet' =
                _delete_rows_where_follower_url_matches(overallSheet, key, plan["overall"])
          /\ newFollowsSheet' =
                _delete_rows_where_follower_url_matches(newFollowsSheet, key, plan["follows"])
          /\ newUnfollowsSheet' =
                _delete_rows_where_follower_url_matches(newUnfollowsSheet, key,
                                                        plan["unfollows"])
          /\ hist' = [hist EXCEPT ![key] = NoHist]
          /\ faults' = IF plan = NoRemoveFault THEN faults ELSE faults + 1
          /\ last' = [NoLast EXCEPT !.kind = "remove", !.key = key]
    /\ UNCHANGED <<profilesHeader, overallHeader, running, pc, exc, signals, passVars,
                   passes, edits, iters>>
    /\ UNCHANGED <<clientVars, uiVars, callVars>>

\* MainWindow._start_run, ScrapeWorker.run and run_scrape up to its loop (lines 63-68)
StartRun ==
    /\ ~running
    /\ pc = "idle"
    /\ passes < MaxPasses
    /\ iters + Len(get_profiles(0)) <= MaxIterations
    /\ running' = TRUE
    /\ pc' = "loop"
    /\ \E nfail \in FailChoices :
          /\ profiles' = get_profiles(nfail)
          /\ faults' = IF nfail > 0 THEN faults + 1 ELSE faults
    /\ idx' = 1
    /\ new_follows_list' = <<>>
    /\ new_unfollows_list' = <<>>
    /\ profiles_processed' = 0
    /\ statusLog' = <<>>
    /\ signals' = <<>>
    /\ passes' = passes + 1
    /\ last' = NoLast
    /\ UNCHANGED <<storeVars, exc, edits, iters, hist>>
    /\ UNCHANGED <<clientVars, uiVars, callVars>>

\* the list walked from its end
CurrentFromEnd == profiles[Len(profiles) + 1 - idx]

\* the profile of the current iteration
Current ==
    profiles[idx]
CurrentKey == _get_username_from_profile_url(Current[1])
InLoop == pc = "loop" /\ idx <= Len(profiles)

\* lines 76-84 without the except clause: the error of the fetch leaves run_scrape
IterFetchErrorAborts ==
    /\ InLoop
    /\ \E err \in FetchErrors :
          /\ statusLog' = Append(statusLog,
                [kind |-> "name", who |-> DisplayName(Current[1], Current[2]), err |-> ""])
          /\ last' = [NoLast EXCEPT !.kind = "error", !.t = Current, !.key = CurrentKey,
                                    !.err = err, !.prev = hist[CurrentKey]]
          /\ exc' = err
    /\ pc' = "raised"
    /\ hist' = [hist EXCEPT ![CurrentKey] = NoHist]
    /\ iters' = iters + 1
    /\ UNCHANGED <<storeVars, running, signals, profiles, idx, new_follows_list,
                   new_unfollows_list, profiles_processed, passes, edits, faults>>
    /\ UNCHANGED <<clientVars, uiVars, callVars>>

\* lines 76-84: get_followed_companies raises; the error is reported and the
\* loop continues
IterFetchError ==
    /\ InLoop
    /\ \E err \in FetchErrors :
          /\ statusLog' = statusLog \o
                <<[kind |-> "name", who |-> DisplayName(Current[1], Current[2]), err |-> ""],
                  [kind |-> "error", who |-> DisplayName(Current[1], Current[2]), err |-> err]>>
          /\ last' = [NoLast EXCEPT !.kind = "error", !.t = Current, !.key = CurrentKey,
                                    !.err = err, !.prev = hist[CurrentKey]]
    /\ hist' = [hist EXCEPT ![CurrentKey] = NoHist]
    /\ idx' = idx + 1
    /\ iters' = iters + 1
    /\ UNCHANGED <<storeVars, running, pc, exc, signals, profiles, new_follows_list,
                   new_unfollows_list, profiles_processed, passes, edits, faults>>
    /\ UNCHANGED <<clientVars, uiVars, callVars>>

\* the companies that have an Overall row for the follower with the given key,
\* as get_overall_records reads them
OverallCompaniesOf(key) ==
    LET recs == get_overall_records(0)
    IN  {[name |-> recs[i].Company_Name, url |-> recs[i].Company_URL] :
            i \in {j \in 1..Len(recs) :
                      _normalize_profile_url(recs[j].Follower_URL) = key}}

\* the effects of a branch result r on the state of the pass and the store
ApplyToRun(r, kind, companies, plan) ==
    /\ overallSheet' = r.overall
    /\ newFollowsSheet' = r.follows
    /\ newUnfollowsSheet' = r.unfollows
    /\ profilesSheet' = r.profilesRows
    /\ new_follows_list' = new_follows_list \o r.new_follows
    /\ new_unfollows_list' = new_unfollows_list \o r.new_unfollows
    /\ profiles_processed' = profiles_processed + 1
    /\ statusLog' = Append(statusLog,
                           [kind |-> "name", who |-> DisplayName(Current[1], Current[2]),
                            err |-> ""])
    /\ pc' = IF r.exc # "" THEN "raised" ELSE "loop"
    /\ exc' = r.exc
    /\ idx' = IF r.exc # "" THEN idx ELSE idx + 1
    /\ last' = [kind |-> kind, t |-> Current, key |-> CurrentKey, fetch |-> companies,
                err |-> "", plan |-> plan, exc |-> r.exc,
                new_follows |-> r.new_follows, new_unfollows |-> r.new_unfollows,
                appends |-> r.appends, deletes |-> r.deletes, removed |-> r.removed,
                before |-> OverallCompaniesOf(CurrentKey),
                prev |-> hist[CurrentKey]]
    /\ hist' = [hist EXCEPT ![CurrentKey] =
                   [seen |-> TRUE, incremental |-> kind = "incremental",
                    clean |-> ~Exhausted(plan), fetch |-> companies]]
    /\ iters' = iters + 1
    /\ faults' = IF plan = NoFault THEN faults ELSE faults + 1
    /\ UNCHANGED <<profilesHeader, overallHeader, running, signals, profiles, passes, edits>>

\* the effects of a branch result r on the state
Apply(r, kind, companies, plan) ==
    /\ ApplyToRun(r, kind, companies, plan)
    /\ UNCHANGED <<clientVars, uiVars, callVars>>

\* lines 85-100: the fetch succeeded and the profile is not yet initially scraped
IterInitial ==
    /\ InLoop
    /\ IsInitial(Current)
    /\ \E companies \in FetchLists, plan \in FaultPlans(InitialSites) :
          \E r \in {InitialBranch(Current, companies, plan)} :
              Apply(r, "initial", companies, plan)

\* lines 85-87, 101-166: the fetch succeeded and the profile was initially scraped.
\* Each local of the branch is bound to its value once.
IterIncremental ==
    /\ InLoop
    /\ ~IsInitial(Current)
    /\ \E companies \in FetchLists, plan \in FaultPlans(IncrementalSites) :
       \E follower_key \in {_get_username_from_profile_url(FollowerUrl(Current[1]))} :
       \E overall_records \in {get_overall_records(plan["read_overall"])} :
       \E news \in {NewFollowCompanies(follower_key, companies,
                                       get_overall_set(overall_records))} :
       \E f \in {FollowWrites(Current, news, plan)} :
       \E gone \in {UnfollowedPositions(follower_key, companies, overall_records)} :
       \E u \in {UnfollowWrites(Current, overall_records, gone, f.overall, plan)} :
          Apply(IncrementalBranch(f, u), "incremental", companies, plan)

\* line 171: the loop is over, run_scrape returns its result
Return ==
    /\ pc = "loop"
    /\ idx > Len(profiles)
    /\ pc' = "returned"
    /\ last' = NoLast
    /\ UNCHANGED <<storeVars, running, exc, signals, passVars, counters, hist>>
    /\ UNCHANGED <<clientVars, uiVars, callVars>>

\* how run_scrape ended: it returned, or an exception left it
RunScrapeOutcome == IF pc = "returned" THEN "returned" ELSE exc

\* a worker that emits finished_with_result only when run_scrape returned
WorkerSignalsOnReturnOnly(outcome) ==
    IF outcome = "returned"
    THEN <<[sig |-> "finished_with_result", processed |-> profiles_processed,
            follows |-> Len(new_follows_list), unfollows |-> Len(new_unfollows_list)]>>
    ELSE <<[sig |-> "status", processed |-> 0, follows |-> 0, unfollows |-> 0]>>

\* ScrapeWorker.run: the signals emitted for an outcome of run_scrape
WorkerSignals(outcome) ==
    IF outcome = "returned"
    THEN <<[sig |-> "finished_with_result", processed |-> profiles_processed,
            follows |-> Len(new_follows_list), unfollows |-> Len(new_unfollows_list)]>>
    ELSE IF outcome = "LinkedInAPIError"
         THEN <<[sig |-> "finished_with_result", processed |-> 0, follows |-> 0, unfollows |-> 0],
                [sig |-> "status", processed |-> 0, follows |-> 0, unfollows |-> 0],
                [sig |-> "api_error", processed |-> 0, follows |-> 0, unfollows |-> 0]>>
         ELSE <<[sig |-> "finished_with_result", processed |-> 0, follows |-> 0, unfollows |-> 0],
                [sig |-> "status", processed |-> 0, follows |-> 0, unfollows |-> 0]>>

\* ScrapeWorker.run after run_scrape ended
WorkerEmit ==
    /\ pc \in {"returned", "raised"}
    /\ signals' = WorkerSignals(RunScrapeOutcome)
    /\ pc' = "emitted"
    /\ last' = NoLast
    /\ UNCHANGED <<storeVars, running, exc, passVars, counters, hist>>
    /\ UNCHANGED <<clientVars, uiVars, callVars>>

\* MainWindow._on_worker_finished
OnWorkerFinished ==
    /\ pc = "emitted"
    \* the slot is connected to finished_with_result (line 726)
    /\ \E i \in 1..Len(signals) : signals[i].sig = "finished_with_result"
    /\ running' = FALSE
    /\ pc' = "idle"
    /\ exc' = ""
    /\ signals' = <<>>
    /\ profiles' = <<>>
    /\ idx' = 0
    /\ new_follows_list' = <<>>
    /\ new_unfollows_list' = <<>>
    /\ profiles_processed' = 0
    /\ statusLog' = <<>>
    /\ last' = NoLast
    /\ UNCHANGED <<storeVars, counters, hist>>
    /\ UNCHANGED <<clientVars, uiVars, callVars>>

Next ==
    \/ AddProfile
    \/ RemoveProfile
    \/ StartRun
    \/ IterFetchError
    \/ IterInitial
    \/ IterIncremental
    \/ Return
    \/ WorkerEmit
    \/ OnWorkerFinished


(***************************************************************************)
(* Remote client (get_followed_companies)                                  *)
(***************************************************************************)
\* max_retries: attempts per page
max_retries == 15

\* pages a response may announce
MaxPages == 2

\* items of a response page: name and linkedinURL as the API sends them
ItemAcme == [name |-> <<"A", "c", "m", "e", " ">>, linkedinURL |-> CompanyAcme.url]
ItemGamma == [name |-> <<"G", "a", "m", "m", "a">>, linkedinURL |-> <<>>]
ItemBlank == [name |-> <<" ">>, linkedinURL |-> <<>>]
ItemLists == {<<>>, <<ItemAcme>>, <<ItemBlank, ItemGamma>>}

\* the local `response` before any request was answered
NoResponse ==
    [bound |-> FALSE, status |-> 0, json |-> FALSE, success |-> FALSE, items |-> <<>>,
     totalPages |-> 0]

\* what a request can be answered with: 429, another HTTP error, a body that
\* is not JSON, a JSON body without success, a JSON body with a page of items
Responses ==
    {[NoResponse EXCEPT !.bound = TRUE, !.status = 429],
     [NoResponse EXCEPT !.bound = TRUE, !.status = 500],
     [NoResponse EXCEPT !.bound = TRUE, !.status = 200],
     [NoResponse EXCEPT !.bound = TRUE, !.status = 200, !.json = TRUE]}
    \cup
    {[bound |-> TRUE, status |-> 200, json |-> TRUE, success |-> TRUE, items |-> its,
      totalPages |-> tp] : its \in ItemLists, tp \in 0..MaxPages}

\* `data = None`
NoData == [none |-> TRUE, success |-> FALSE, items |-> <<>>, totalPages |-> 0]

\* response.json()
JsonOf(resp) ==
    [none |-> FALSE, success |-> resp.success, items |-> resp.items,
     totalPages |-> resp.totalPages]

\* the arguments get_followed_companies is called with
ClientInputs == {ProfileJohnUrl, <<" ">>}

\* lines 129-136: the results a page of items adds
PageResults(items) ==
    LET Stripped(i) == [name |-> Strip(items[i].name), url |-> Strip(items[i].linkedinURL)]
        kept == AtPositions([i \in 1..Len(items) |-> Stripped(i)],
                            {i \in 1..Len(items) :
                                Stripped(i).name # <<>> \/ Stripped(i).url # <<>>})
    IN  [i \in 1..Len(kept) |->
            [name |-> IF kept[i].name # <<>> THEN kept[i].name ELSE kept[i].url,
             url |-> kept[i].url]]

\* lines 64-115 with 429 on the last attempt treated like any other failed request
HandleStoppingQuietly(resp, att, pg) ==
    IF ~resp.bound THEN [next |-> "raise", exc |-> "UnboundLocalError", data |-> NoData]
    ELSE IF resp.status = 200 /\ resp.json
    THEN [next |-> "break", exc |-> "", data |-> JsonOf(resp)]
    ELSE IF att < max_retries - 1 THEN [next |-> "retry", exc |-> "", data |-> NoData]
    ELSE IF pg = 1 THEN [next |-> "raise", exc |-> "LinkedInAPIError", data |-> NoData]
    ELSE [next |-> "break", exc |-> "", data |-> NoData]

\* lines 64-115: what attempt att for page pg does with the response
Handle(resp, att, pg) ==
    IF ~resp.bound
    THEN \* line 64 reads an unbound local; neither except clause catches it
         [next |-> "raise", exc |-> "UnboundLocalError", data |-> NoData]
    ELSE IF resp.status = 429
    THEN IF att = max_retries - 1
         THEN [next |-> "raise", exc |-> "LinkedInAPIError", data |-> NoData]
         ELSE [next |-> "retry", exc |-> "", data |-> NoData]
    ELSE IF resp.status = 200 /\ resp.json
    THEN [next |-> "break", exc |-> "", data |-> JsonOf(resp)]
    ELSE \* raise_for_status or response.json() raised
         IF att < max_retries - 1 THEN [next |-> "retry", exc |-> "", data |-> NoData]
         ELSE IF pg = 1 THEN [next |-> "raise", exc |-> "LinkedInAPIError", data |-> NoData]
         ELSE [next |-> "break", exc |-> "", data |-> NoData]

\* what the network did with one attempt: every request timed out or could
\* not connect, the answer was 429, an HTTP error or not JSON, or a JSON body
OutcomeOf(resp) ==
    IF resp.status = 429 THEN "limited"
    ELSE IF resp.status = 200 /\ resp.json THEN "ok"
    ELSE "error"

\* the outcomes lines 92-115 are written for
TransientOutcomes == {"timeout", "error"}

\* history of a call: the outcomes of the attempts for the current page, the
\* results of the pages the API has answered, the page (0: none) all of
\* whose attempts were transient failures
NoTrace == [outcomes |-> {}, served |-> <<>>, failed_at |-> 0]

InitClient ==
    /\ client_pc = "idle"
    /\ username = <<>>
    /\ page = 0
    /\ total_pages = 0
    /\ attempt = 0
    /\ response = NoResponse
    /\ data = NoData
    /\ results = <<>>
    /\ client_exc = ""
    /\ limited = 0
    /\ trace = NoTrace

\* lines 44-50
ClientCall ==
    /\ client_pc = "idle"
    /\ \E inp \in ClientInputs :
          /\ username' = _get_username_from_profile_url(inp)
          /\ client_pc' = IF username' = <<>> THEN "done" ELSE "post"
    /\ page' = 1
    /\ total_pages' = 1
    /\ attempt' = 0
    /\ UNCHANGED <<response, data, results, client_exc, limited, trace>>
    /\ UNCHANGED <<runVars, uiVars, callVars>>

\* lines 58-61: one of the (up to 12) requests of the attempt is answered
ClientPostAnswered ==
    /\ client_pc = "post"
    /\ \E resp \in Responses :
          /\ response' = resp
          /\ limited' = IF resp.status = 429 THEN limited + 1 ELSE limited
          /\ trace' = [trace EXCEPT
                          !.outcomes = @ \cup {OutcomeOf(resp)},
                          !.served = IF OutcomeOf(resp) = "ok"
                                     THEN @ \o PageResults(resp.items) ELSE @]
    /\ client_pc' = "handle"
    /\ UNCHANGED <<username, page, total_pages, attempt, data, results, client_exc>>
    /\ UNCHANGED <<runVars, uiVars, callVars>>

\* lines 58-63: every request of the attempt raises; `response` keeps the
\* value it had
ClientPostUnanswered ==
    /\ client_pc = "post"
    /\ client_pc' = "handle"
    /\ trace' = [trace EXCEPT !.outcomes = @ \cup {"timeout"}]
    /\ UNCHANGED <<username, page, total_pages, attempt, response, data, results,
                   client_exc, limited>>
    /\ UNCHANGED <<runVars, uiVars, callVars>>

\* lines 64-115
ClientHandle ==
    /\ client_pc = "handle"
    /\ LET h == Handle(response, attempt, page)
       IN  /\ client_pc' = CASE h.next = "retry" -> "post"
                             [] h.next = "raise" -> "done"
                             [] OTHER -> "page"
           /\ attempt' = IF h.next = "retry" THEN attempt + 1 ELSE attempt
           /\ client_exc' = h.exc
           /\ data' = h.data
           /\ trace' = IF h.next # "retry" /\ trace.outcomes \subseteq TransientOutcomes
                       THEN [trace EXCEPT !.failed_at = page] ELSE trace
    /\ UNCHANGED <<username, page, total_pages, response, results, limited>>
    /\ UNCHANGED <<runVars, uiVars, callVars>>

\* lines 116-140 with an unsuccessful body answered with the empty list on every page
ClientPageReturningEmpty ==
    /\ client_pc = "page"
    /\ IF data.none \/ ~data.success
       THEN /\ client_pc' = "done"
            /\ results' = IF ~data.none THEN <<>> ELSE results
            /\ UNCHANGED <<page, total_pages, attempt, data, limited, trace>>
       ELSE /\ total_pages' = IF data.totalPages = 0 THEN 1 ELSE data.totalPages
            /\ results' = results \o PageResults(data.items)
            /\ page' = page + 1
            /\ client_pc' = IF page' <= total_pages' THEN "post" ELSE "done"
            /\ attempt' = IF page' <= total_pages' THEN 0 ELSE attempt
            /\ data' = IF page' <= total_pages' THEN NoData ELSE data
            /\ limited' = IF page' <= total_pages' THEN 0 ELSE limited
            /\ trace' = IF page' <= total_pages' THEN [trace EXCEPT !.outcomes = {}]
                        ELSE trace
    /\ UNCHANGED <<username, response, client_exc>>
    /\ UNCHANGED <<runVars, uiVars, callVars>>

\* lines 116-140 with a successful page requested again instead of the next one
ClientPageRefetching ==
    /\ client_pc = "page"
    /\ IF data.none \/ ~data.success
       THEN /\ client_pc' = "done"
            /\ results' = IF ~data.none /\ page = 1 THEN <<>> ELSE results
            /\ UNCHANGED <<page, total_pages, attempt, data, limited, trace>>
       ELSE /\ total_pages' = IF data.totalPages = 0 THEN 1 ELSE data.totalPages
            /\ client_pc' = "post"
            /\ attempt' = 0
            /\ data' = NoData
            /\ limited' = 0
            /\ trace' = [trace EXCEPT !.outcomes = {}]
            /\ UNCHANGED <<page, results>>
    /\ UNCHANGED <<username, response, client_exc>>
    /\ UNCHANGED <<runVars, uiVars, callVars>>

\* lines 116-140
ClientPage ==
    /\ client_pc = "page"
    /\ IF data.none \/ ~data.success
       THEN /\ client_pc' = "done"
            /\ results' = IF ~data.none /\ page = 1 THEN <<>> ELSE results
            /\ UNCHANGED <<page, total_pages, attempt, data, limited, trace>>
       ELSE /\ total_pages' = IF data.totalPages = 0 THEN 1 ELSE data.totalPages
            /\ results' = results \o PageResults(data.items)
            /\ page' = page + 1
            /\ client_pc' = IF page' <= total_pages' THEN "post" ELSE "done"
            /\ attempt' = IF page' <= total_pages' THEN 0 ELSE attempt
            /\ data' = IF page' <= total_pages' THEN NoData ELSE data
            /\ limited' = IF page' <= total_pages' THEN 0 ELSE limited
            /\ trace' = IF page' <= total_pages' THEN [trace EXCEPT !.outcomes = {}]
                        ELSE trace
    /\ UNCHANGED <<username, response, client_exc>>
    /\ UNCHANGED <<runVars, uiVars, callVars>>

\* the caller has the result or the exception; the function can be called again
ClientReset ==
    /\ client_pc = "done"
    /\ client_pc' = "idle"
    /\ username' = <<>>
    /\ page' = 0
    /\ total_pages' = 0
    /\ attempt' = 0
    /\ response' = NoResponse
    /\ data' = NoData
    /\ results' = <<>>
    /\ client_exc' = ""
    /\ limited' = 0
    /\ trace' = NoTrace
    /\ UNCHANGED <<runVars, uiVars, callVars>>

NextClient ==
    \/ ClientCall
    \/ ClientPostAnswered
    \/ ClientPostUnanswered
    \/ ClientHandle
    \/ ClientPage
    \/ ClientReset

(***************************************************************************)
(* Run control (MainWindow._start_run, ScrapeScheduler)                    *)
(***************************************************************************)
\* the thread of the Qt event loop and the thread the scheduler runs its job on
Threads == {"ui", "scheduler"}

\* the day check boxes
Days == {"Mon", "Tue"}

\* workers started in a behaviour
MaxStarts == 3

InitUI ==
    /\ _running = FALSE
    /\ thread_pc = [t \in Threads |-> "idle"]
    /\ workers = 0
    /\ finished = 0
    /\ _selected_days = {"Mon"}
    /\ job = TRUE
    /\ started = 0
    /\ sched = [_hour |-> AUTO_SCRAPE_HOUR, _minute |-> AUTO_SCRAPE_MINUTE,
                trigger |-> <<AUTO_SCRAPE_HOUR, AUTO_SCRAPE_MINUTE>>,
                status |-> <<AUTO_SCRAPE_HOUR, AUTO_SCRAPE_MINUTE>>,
                edit |-> <<AUTO_SCRAPE_HOUR, AUTO_SCRAPE_MINUTE>>,
                raised |-> ""]

\* the trigger of a thread is due: the Run button is enabled and clicked, or
\* the scheduler holds the job and its time has come
Triggered(t) ==
    IF t = "ui" THEN ~_running ELSE job

\* line 719-720: the thread reads _running and returns when it is set
StartRunCheck(t) ==
    /\ thread_pc[t] = "idle"
    /\ Triggered(t)
    /\ started < MaxStarts
    /\ thread_pc' = [thread_pc EXCEPT ![t] = IF _running THEN "idle" ELSE "checked"]
    /\ UNCHANGED <<_running, workers, finished, _selected_days, job, started, sched>>
    /\ UNCHANGED <<runVars, clientVars, callVars>>

\* lines 721-728: the thread sets _running and starts a ScrapeWorker
StartRunSet(t) ==
    /\ thread_pc[t] = "checked"
    /\ _running' = TRUE
    /\ workers' = workers + 1
    /\ started' = started + 1
    /\ thread_pc' = [thread_pc EXCEPT ![t] = "idle"]
    /\ UNCHANGED <<finished, _selected_days, job, sched>>
    /\ UNCHANGED <<runVars, clientVars, callVars>>

\* the ways run_scrape ends inside ScrapeWorker.run (lines 216-231)
WorkerOutcomes == {"returned", "LinkedInAPIError", "Exception"}

\* ScrapeWorker.run ends: each finished_with_result it emits is queued for the
\* UI thread
WorkerRunEnds ==
    /\ workers > 0
    /\ workers' = workers - 1
    /\ \E outcome \in WorkerOutcomes :
          finished' = finished + Cardinality({i \in 1..Len(WorkerSignals(outcome)) :
                                                 WorkerSignals(outcome)[i].sig = "finished_with_result"})
    /\ UNCHANGED <<_running, thread_pc, _selected_days, job, started, sched>>
    /\ UNCHANGED <<runVars, clientVars, callVars>>

\* MainWindow._on_worker_finished, a slot the UI thread runs between its handlers
WorkerFinishedSlot ==
    /\ finished > 0
    /\ thread_pc["ui"] = "idle"
    /\ finished' = finished - 1
    /\ _running' = FALSE
    /\ UNCHANGED <<thread_pc, workers, _selected_days, job, started, sched>>
    /\ UNCHANGED <<runVars, clientVars, callVars>>

\* MainWindow._on_days_changed -> set_days, ScrapeScheduler.start; the check
\* boxes are disabled while _running
DaysChanged ==
    /\ thread_pc["ui"] = "idle"
    /\ ~_running
    /\ \E days \in SUBSET Days :
          /\ days # _selected_days
          /\ _selected_days' = days
          /\ job' = IF days = {} THEN job ELSE TRUE
          \* start() adds the job anew with CronTrigger(hour=_hour, minute=_minute);
          \* _update_next_run_status reports get_next_run_time()
          /\ sched' = [sched EXCEPT
                          !.trigger = IF days = {} THEN @ ELSE <<sched._hour, sched._minute>>,
                          !.status = <<sched._hour, sched._minute>>,
                          !.raised = ""]
    /\ UNCHANGED <<_running, thread_pc, workers, finished, started>>
    /\ UNCHANGED <<runVars, clientVars, callVars>>

\* the times of day the user may put into the QTimeEdit
TimesOfDay == {<<AUTO_SCRAPE_HOUR, AUTO_SCRAPE_MINUTE>>, <<18, 30>>, <<7, 15>>}

\* MainWindow._on_auto_run_time_changed, the slot of QTimeEdit.timeChanged; the
\* edit is disabled while _running. Line 684 calls ScrapeScheduler.set_time,
\* which the class does not define: the attribute lookup raises
\* AttributeError, and lines 685-686 (start, _update_next_run_status) are not
\* reached.
TimeChanged ==
    /\ thread_pc["ui"] = "idle"
    /\ ~_running
    /\ \E new_time \in TimesOfDay \ {sched.edit} :
          sched' = [sched EXCEPT !.edit = new_time, !.raised = "AttributeError"]
    /\ UNCHANGED <<_running, thread_pc, workers, finished, _selected_days, job, started>>
    /\ UNCHANGED <<runVars, clientVars, callVars>>

NextUI ==
    \/ TimeChanged
    \/ \E t \in Threads : StartRunCheck(t)
    \/ \E t \in Threads : StartRunSet(t)
    \/ WorkerRunEnds
    \/ WorkerFinishedSlot
    \/ DaysChanged

(***************************************************************************)
(* Specifications                                                          *)
(***************************************************************************)
(***************************************************************************)
(* Direct calls of the adapter's batch operations                          *)
(***************************************************************************)
\* data rows the three sheets may hold together in a behaviour of direct calls
MaxRows == 3
\* length of the list remove_from_overall_by_row_indices is called with
MaxListed == 2

\* data rows of Overall, New Follows and New Unfollows together
StoredRows == Len(overallSheet) + Len(newFollowsSheet) + Len(newUnfollowsSheet)

\* records as run_scrape builds them (scrape_runner.py:94-96, 113-118, 145-155)
OverallRecordAcme ==
    <<CompanyName(CompanyAcme), CompanyUrl(CompanyAcme), NameJohn, ProfileJohnUrl, Today, Blank>>
OverallRecordGamma ==
    <<CompanyName(CompanyGamma), CompanyUrl(CompanyGamma), NameJohn, ProfileJohnUrl, Blank,
      Today>>
FollowRecordAcme == SubSeq(OverallRecordAcme, 1, 4) \o <<Today>>
FollowRecordGamma == SubSeq(OverallRecordGamma, 1, 4) \o <<Today>>
UnfollowRecordAcme == SubSeq(OverallRecordAcme, 1, 4) \o <<UserEntered(Today), Blank, Today>>
UnfollowRecordGamma == SubSeq(OverallRecordGamma, 1, 4) \o <<Blank, Today, Today>>

\* the lists a batch append is called with
BatchesOf(a, b) == {<<>>, <<a>>, <<a, b>>, <<b, a>>}

\* the lists of row numbers: any order, repetitions, the header row, 0 and a
\* number beyond the last row
RowNumbers == 0..(MaxRows + 1)
RowLists == UNION {[1..n -> RowNumbers] : n \in 0..MaxListed}

NoCall ==
    [op |-> "none", records |-> <<>>, rows |-> <<>>, before |-> <<>>, writes |-> 0,
     requests |-> <<>>, fault |-> FALSE, result |-> <<>>]

InitCalls == call = NoCall

\* SheetsService.append_overall_batch(records)
CallAppendOverall ==
    /\ \E records \in BatchesOf(OverallRecordAcme, OverallRecordGamma), nfail \in {0, MaxFail} :
       \E w \in {BatchAppendWrite(records, nfail)} :
          /\ StoredRows + Len(records) <= MaxRows
          /\ overallSheet' = IF records # <<>> /\ w.ok
                             THEN append_overall_batch(overallSheet, records)
                             ELSE overallSheet
          /\ call' = [NoCall EXCEPT !.op = "append_overall", !.records = records,
                                    !.before = overallSheet, !.writes = w.attempts,
                                    !.fault = nfail > 0]
    /\ UNCHANGED <<profilesHeader, profilesSheet, overallHeader, newFollowsSheet,
                   newUnfollowsSheet, running, pc, exc, signals, passVars, counters, last,
                   hist>>
    /\ UNCHANGED <<clientVars, uiVars>>

\* SheetsService.append_new_follows_batch(records)
CallAppendFollows ==
    /\ \E records \in BatchesOf(FollowRecordAcme, FollowRecordGamma), nfail \in {0, MaxFail} :
       \E w \in {BatchAppendWrite(records, nfail)} :
          /\ StoredRows + Len(records) <= MaxRows
          /\ newFollowsSheet' = IF records # <<>> /\ w.ok
                                THEN append_new_follows_batch(newFollowsSheet, records)
                                ELSE newFollowsSheet
          /\ call' = [NoCall EXCEPT !.op = "append_new_follows", !.records = records,
                                    !.before = newFollowsSheet, !.writes = w.attempts,
                                    !.fault = nfail > 0]
    /\ UNCHANGED <<profilesHeader, profilesSheet, overallHeader, overallSheet,
                   newUnfollowsSheet, running, pc, exc, signals, passVars, counters, last,
                   hist>>
    /\ UNCHANGED <<clientVars, uiVars>>

\* SheetsService.append_new_unfollows_batch(records)
CallAppendUnfollows ==
    /\ \E records \in BatchesOf(UnfollowRecordAcme, UnfollowRecordGamma),
          nfail \in {0, MaxFail} :
       \E w \in {BatchAppendWrite(records, nfail)} :
          /\ StoredRows + Len(records) <= MaxRows
          /\ newUnfollowsSheet' = IF records # <<>> /\ w.ok
                                  THEN append_new_unfollows_batch(newUnfollowsSheet, records)
                                  ELSE newUnfollowsSheet
          /\ call' = [NoCall EXCEPT !.op = "append_new_unfollows", !.records = records,
                                    !.before = newUnfollowsSheet, !.writes = w.attempts,
                                    !.fault = nfail > 0]
    /\ UNCHANGED <<profilesHeader, profilesSheet, overallHeader, overallSheet,
                   newFollowsSheet, running, pc, exc, signals, passVars, counters, last,
                   hist>>
    /\ UNCHANGED <<clientVars, uiVars>>

\* SheetsService.remove_from_overall_by_row_indices(one_based_rows)
CallRemoveRows ==
    /\ \E one_based_rows \in RowLists,
          plan \in {<<0, 0>>, <<MaxFail, 0>>, <<0, MaxFail>>} :
       \E nsheet \in {plan[1]}, nfail \in {plan[2]} :
       \E r \in {remove_from_overall_by_row_indices(overallSheet, one_based_rows, nsheet,
                                                    nfail)} :
          /\ overallSheet' = r.sheet
          /\ call' = [NoCall EXCEPT !.op = "remove_rows", !.rows = one_based_rows,
                                    !.before = overallSheet, !.writes = r.batches,
                                    !.requests = r.requests,
                                    !.fault = nsheet > 0 \/ nfail > 0]
    /\ UNCHANGED <<profilesHeader, profilesSheet, overallHeader, newFollowsSheet,
                   newUnfollowsSheet, running, pc, exc, signals, passVars, counters, last,
                   hist>>
    /\ UNCHANGED <<clientVars, uiVars>>

\* the spreadsheet as someone may have left it: a Profiles sheet with a row
\* whose profile cell is blank, with its header row or with a column missing
\* from it; an Overall sheet whose first header cell was renamed
ProfileRowsFound ==
    <<<<NameJohn, ProfileJohnUrl, INITIALLY_SCRAPED_NO>>,
      <<NameJohn, <<" ">>, INITIALLY_SCRAPED_NO>>,
      << <<>>, ProfileJaneSlug, INITIALLY_SCRAPED_YES>> >>
SheetsFound ==
    {[profilesHeader |-> PROFILES_HEADERS, overallHeader |-> OVERALL_HEADERS],
     [profilesHeader |-> PROFILES_HEADERS,
      overallHeader |-> [OVERALL_HEADERS EXCEPT ![1] = "Company"]],
     [profilesHeader |-> SubSeq(PROFILES_HEADERS, 1, 2), overallHeader |-> OVERALL_HEADERS]}

\* the spreadsheet is edited by hand, outside the program
SheetEdited ==
    /\ profilesSheet = <<>>
    /\ \E found \in SheetsFound :
          /\ profilesHeader' = found.profilesHeader
          /\ overallHeader' = found.overallHeader
    /\ profilesSheet' = ProfileRowsFound
    /\ call' = NoCall
    /\ UNCHANGED <<overallSheet, newFollowsSheet, newUnfollowsSheet, running, pc, exc,
                   signals, passVars, counters, last, hist>>
    /\ UNCHANGED <<clientVars, uiVars>>

\* SheetsService.get_profiles()
CallGetProfiles ==
    /\ \E got \in {get_profiles(0)} :
          call' = [NoCall EXCEPT !.op = "get_profiles", !.result = got]
    /\ UNCHANGED <<runVars, clientVars, uiVars>>

\* SheetsService.get_overall_records()
CallGetOverallRecords ==
    /\ \E got \in {get_overall_records(0)} :
          call' = [NoCall EXCEPT !.op = "get_overall_records", !.result = got]
    /\ UNCHANGED <<runVars, clientVars, uiVars>>

NextAdapter ==
    \/ SheetEdited
    \/ CallGetProfiles
    \/ CallGetOverallRecords
    \/ CallAppendOverall
    \/ CallAppendFollows
    \/ CallAppendUnfollows
    \/ CallRemoveRows

(***************************************************************************)
(* A pass whose fetches are calls of get_followed_companies: run_scrape    *)
(* line 77 calls the client for the current profile and the branch works   *)
(* on the list the call returns. The store answers every call, and the     *)
(* remote side every request.                                              *)
(***************************************************************************)
\* scrape_runner line 77 -> get_followed_companies lines 44-50 for the
\* current profile; the locals of the call are fresh
PassFetch ==
    /\ InLoop
    /\ client_pc = "idle"
    /\ username' = _get_username_from_profile_url(Current[1])
    /\ client_pc' = IF username' = <<>> THEN "done" ELSE "post"
    /\ page' = 1
    /\ total_pages' = 1
    /\ attempt' = 0
    /\ response' = NoResponse
    /\ data' = NoData
    /\ results' = <<>>
    /\ client_exc' = ""
    /\ limited' = 0
    /\ trace' = NoTrace
    /\ UNCHANGED <<runVars, uiVars, callVars>>

\* get_followed_companies is left; what its locals held stays on record
ClientReturns ==
    /\ client_pc' = "idle"
    /\ UNCHANGED <<username, page, total_pages, attempt, response, data, results,
                   client_exc, limited, trace>>

\* lines 78-84: the call raised
PassFetchError ==
    /\ InLoop
    /\ client_pc = "done" /\ client_exc # ""
    /\ statusLog' = statusLog \o
          <<[kind |-> "name", who |-> DisplayName(Current[1], Current[2]), err |-> ""],
            [kind |-> "error", who |-> DisplayName(Current[1], Current[2]),
             err |-> client_exc]>>
    /\ last' = [NoLast EXCEPT !.kind = "error", !.t = Current, !.key = CurrentKey,
                              !.err = client_exc, !.prev = hist[CurrentKey]]
    /\ hist' = [hist EXCEPT ![CurrentKey] = NoHist]
    /\ idx' = idx + 1
    /\ iters' = iters + 1
    /\ ClientReturns
    /\ UNCHANGED <<storeVars, running, pc, exc, signals, profiles, new_follows_list,
                   new_unfollows_list, profiles_processed, passes, edits, faults>>
    /\ UNCHANGED <<uiVars, callVars>>

\* lines 85-100 on the list the call returned
PassInitial ==
    /\ InLoop
    /\ client_pc = "done" /\ client_exc = ""
    /\ IsInitial(Current)
    /\ \E r \in {InitialBranch(Current, results, NoFault)} :
          ApplyToRun(r, "initial", results, NoFault)
    /\ ClientReturns
    /\ UNCHANGED <<uiVars, callVars>>

\* lines 85-87, 101-166 on the list the call returned
PassIncremental ==
    /\ InLoop
    /\ client_pc = "done" /\ client_exc = ""
    /\ ~IsInitial(Current)
    /\ \E follower_key \in {_get_username_from_profile_url(FollowerUrl(Current[1]))} :
       \E overall_records \in {get_overall_records(0)} :
       \E news \in {NewFollowCompanies(follower_key, results,
                                       get_overall_set(overall_records))} :
       \E f \in {FollowWrites(Current, news, NoFault)} :
       \E gone \in {UnfollowedPositions(follower_key, results, overall_records)} :
       \E u \in {UnfollowWrites(Current, overall_records, gone, f.overall, NoFault)} :
          ApplyToRun(IncrementalBranch(f, u), "incremental", results, NoFault)
    /\ ClientReturns
    /\ UNCHANGED <<uiVars, callVars>>

\* passes started in a behaviour of fetching passes
MaxLinkedPasses == 2

\* one profile is added to the empty Profiles sheet
PassAdd ==
    /\ profilesSheet = <<>>
    /\ AddProfile

PassStart ==
    /\ passes < MaxLinkedPasses
    /\ StartRun

\* a row of Overall with nothing in its cells, as get_all_values returns it
BlankOverallRow == << <<>>, <<>>, Blank, Blank >>

\* between two passes someone inserts an empty row above the data rows of
\* Overall, by hand
OverallRowInserted ==
    /\ ~running
    /\ pc = "idle"
    /\ overallSheet # <<>>
    /\ overallSheet[1] # BlankOverallRow
    /\ overallSheet' = <<BlankOverallRow>> \o overallSheet
    /\ last' = NoLast
    /\ UNCHANGED <<profilesHeader, profilesSheet, overallHeader, newFollowsSheet,
                   newUnfollowsSheet, running, pc, exc, signals, passVars, counters, hist>>
    /\ UNCHANGED <<clientVars, uiVars, callVars>>

\* the remote side of these passes answers every request, with HTTP 500 or
\* with a JSON body
PassPost ==
    /\ ClientPostAnswered
    /\ response'.status = 500 \/ response'.json

NextPass ==
    \/ OverallRowInserted
    \/ PassAdd
    \/ PassStart
    \/ PassFetch
    \/ PassPost
    \/ ClientHandle
    \/ ClientPage
    \/ PassFetchError
    \/ PassInitial
    \/ PassIncremental
    \/ Return
    \/ WorkerEmit
    \/ OnWorkerFinished

(***************************************************************************)
(* Direct calls of the module-level helpers of the services, one call      *)
(* sequence a behaviour                                                    *)
(***************************************************************************)
MaxText == 3
\* the characters the HYPERLINK encoding treats specially, and one it does not
CellAlphabet == {"a", "\"", ",", " "}
RECURSIVE TextsOver(_, _)
TextsOver(alphabet, n) ==
    IF n = 0 THEN {<<>>}
    ELSE LET shorter == TextsOver(alphabet, n - 1)
         IN  shorter \cup {Append(t, c) : t \in shorter, c \in alphabet}
CellTexts == TextsOver(CellAlphabet, MaxText)

\* sheets_service._hyperlink_formula(url, label), url not empty
CallHyperlinkFormula ==
    /\ call.op = "none"
    /\ \E url \in CellTexts \ {<<>>}, label \in CellTexts :
          call' = [NoCall EXCEPT !.op = "_hyperlink_formula",
                                 !.records = <<url, label>>,
                                 !.result = _hyperlink_formula(url, label)]
    /\ UNCHANGED <<runVars, clientVars, uiVars>>

\* sheets_service._parse_hyperlink_cell(cell_value) on the formula just built
CallParseHyperlinkCell ==
    /\ call.op = "_hyperlink_formula"
    /\ call' = [call EXCEPT !.op = "_parse_hyperlink_cell",
                            !.result = _parse_hyperlink_cell(call.result)]
    /\ UNCHANGED <<runVars, clientVars, uiVars>>

\* the ways of writing one LinkedIn address: scheme, host, letter case of the
\* handle, and what follows the handle
Schemes ==
    {<<"h","t","t","p","s",":","/","/">>, <<"h","t","t","p",":","/","/">>,
     <<"H","T","T","P","S",":","/","/">>}
Hosts ==
    {<<"w","w","w",".","l","i","n","k","e","d","i","n",".","c","o","m">>,
     <<"l","i","n","k","e","d","i","n",".","c","o","m">>}
ProfileHandles ==
    {<<"J","o","h","n","-","D","o","e">>, ProfileJohnSlug,
     <<"J","O","H","N","-","D","O","E">>}
CompanySlugs == {<<"A","c","m","e">>, <<"a","c","m","e">>, <<"A","C","M","E">>}
PlainQuery == <<"?","t","r","k","=","1">>
\* a query string whose value is a path of the site
PathQuery(segment) == <<"?","t","o","=">> \o segment \o <<"x">>
UrlTails(segment) ==
    {<<>>, SLASH, PlainQuery, SLASH \o PlainQuery, PathQuery(segment),
     SLASH \o PathQuery(segment)}
Paddings == {<<>>, <<" ">>}
ProfileUrlForms ==
    {pad \o scheme \o host \o IN_SEGMENT \o handle \o tail \o pad :
        pad \in Paddings, scheme \in Schemes, host \in Hosts,
        handle \in ProfileHandles, tail \in UrlTails(IN_SEGMENT)}
CompanyUrlForms ==
    {pad \o scheme \o host \o COMPANY_SEGMENT \o slug \o tail \o pad :
        pad \in Paddings, scheme \in Schemes, host \in Hosts,
        slug \in CompanySlugs, tail \in UrlTails(COMPANY_SEGMENT)}

\* the follower key of one way of writing the profile, as the adapter
\* (_normalize_profile_url) and as the engine (_get_username_from_profile_url)
\* compute it
CallNormalizeProfile ==
    /\ call.op = "none"
    /\ \E written \in ProfileUrlForms \cup ProfileHandles :
          call' = [NoCall EXCEPT !.op = "_normalize_profile_url",
                                 !.records = <<written>>,
                                 !.result = <<_normalize_profile_url(written),
                                              _get_username_from_profile_url(written)>>]
    /\ UNCHANGED <<runVars, clientVars, uiVars>>

\* the company key of one way of writing the company (_normalize_company_url)
CallNormalizeCompany ==
    /\ call.op = "none"
    /\ \E written \in CompanyUrlForms \cup CompanySlugs :
          call' = [NoCall EXCEPT !.op = "_normalize_company_url",
                                 !.records = <<written>>,
                                 !.result = <<_normalize_company_url(written)>>]
    /\ UNCHANGED <<runVars, clientVars, uiVars>>

NextCells ==
    \/ CallNormalizeProfile
    \/ CallNormalizeCompany
    \/ CallHyperlinkFormula
    \/ CallParseHyperlinkCell

Init == InitRun /\ InitClient /\ InitUI /\ InitCalls

\* passes, profile edits and the store
Spec == Init /\ [][Next]_vars

\* one call of get_followed_companies after another
SpecClient == Init /\ [][NextClient]_vars

\* the same with a call that keeps running: requests.post answers or times out
\* (timeout=10), and the function goes on to its next statement
SpecClientFair ==
    /\ Init /\ [][NextClient]_vars
    /\ WF_vars(ClientPostAnswered \/ ClientPostUnanswered)
    /\ WF_vars(ClientHandle)
    /\ WF_vars(ClientPage)

\* the UI thread and the scheduler's thread starting passes
SpecUI == Init /\ [][NextUI]_vars

\* the same with threads that keep running: a handler that has read _running
\* goes on to its next statement, a worker thread reaches the end of run
\* (run_scrape is taken to end, by returning or by raising), and the Qt event
\* loop delivers a queued signal once the UI thread is between handlers
SpecUIFair ==
    /\ Init /\ [][NextUI]_vars
    /\ \A t \in Threads : WF_vars(StartRunSet(t))
    /\ WF_vars(WorkerRunEnds)
    /\ WF_vars(WorkerFinishedSlot)

\* direct calls of the adapter's batch operations on the store
SpecAdapter == Init /\ [][NextAdapter]_vars

\* direct calls of the module-level helpers
SpecCells == Init /\ [][NextCells]_vars

\* passes that fetch through get_followed_companies
SpecPass == Init /\ [][NextPass]_vars

(***************************************************************************)
(* Properties of the reconciliation pass                                   *)
(***************************************************************************)
\* the companies of a fetch result, as run_scrape names them
FetchedCompanies(companies) ==
    {[name |-> CompanyName(companies[i]), url |-> CompanyUrl(companies[i])] :
        i \in 1..Len(companies)}

\* the companies of a list of follow or unfollow records
ReportedCompanies(dicts) ==
    {[name |-> dicts[i].Company_Name, url |-> dicts[i].Company_URL] : i \in 1..Len(dicts)}

\* the latest iteration ran the incremental branch and no store call failed
CleanIncremental == last.kind = "incremental" /\ last.plan = NoFault

\* the company identity of an Overall record: its URL, or its name when it has no URL
CompanyKey(rec) ==
    IF rec.Company_URL # <<>> THEN _normalize_company_url(rec.Company_URL)
    ELSE Lower(Strip(rec.Company_Name))

\* C1: idempotence. When a profile whose flag is already 'Yes' is processed by
\* two passes in a row with the same fetch result and no store failure, the
\* second pass reports no new follow and no new unfollow for it and appends no
\* row to Overall, New Follows or New Unfollows.
C1_SecondPassIdempotent ==
    (/\ CleanIncremental
     /\ last.prev.seen /\ last.prev.incremental /\ last.prev.clean
     /\ last.prev.fetch = last.fetch)
    => (/\ last.new_follows = <<>>
        /\ last.new_unfollows = <<>>
        /\ last.appends = 0)

\* C2: after an incremental iteration without store failure, the companies with
\* an Overall row for the follower are exactly the companies the fetch returned.
C2_SnapshotEqualsFetch ==
    CleanIncremental => OverallCompaniesOf(last.key) = FetchedCompanies(last.fetch)

\* C3: the new-follow records of an incremental iteration are exactly the fetched
\* companies without an Overall row for the follower before it, the new-unfollow
\* records exactly the follower's earlier rows whose company was not fetched.
C3_DeltasExact ==
    CleanIncremental =>
        /\ ReportedCompanies(last.new_follows) = FetchedCompanies(last.fetch) \ last.before
        /\ ReportedCompanies(last.new_unfollows) = last.before \ FetchedCompanies(last.fetch)

\* the Overall row an initial scrape writes for company c of profile t, as the
\* adapter reads it back
SeedRecordOf(rec, c, t) ==
    /\ rec.Company_Name = CompanyName(c)
    /\ rec.Company_URL = CompanyUrl(c)
    /\ _normalize_profile_url(rec.Follower_URL) = _normalize_profile_url(t[1])
    /\ excel_serial_to_date(rec.Initial_Scrape_Date) = Today
    /\ rec.Date_Followed = Blank

\* the step is an initial scrape whose fetch succeeded and whose store calls all succeeded
C4_Step ==
    (last'.kind = "initial" /\ last'.plan = NoFault) =>
        LET n == Len(overallSheet)
            k == Len(last'.fetch)
        IN  /\ \A i \in 1..Len(profilesSheet') :
                  _normalize_profile_url(profilesSheet'[i][2]) = last'.key
                      => profilesSheet'[i][3] = INITIALLY_SCRAPED_YES
            /\ \E i \in 1..Len(profilesSheet') :
                  _normalize_profile_url(profilesSheet'[i][2]) = last'.key
            /\ Len(overallSheet') = n + k
            /\ SubSeq(overallSheet', 1, n) = overallSheet
            /\ \A i \in 1..k :
                  SeedRecordOf(OverallRecordOf(overallSheet'[n + i]), last'.fetch[i], last'.t)

\* C4: an initial scrape whose fetch and store calls succeed sets the profile's
\* flag to 'Yes' and adds to Overall exactly one row per fetched company, with
\* today as initial-scrape-date and an empty date-followed.
C4_InitialScrape == [][C4_Step]_vars

\* C5: the Overall table holds at most one row per (company key, follower key).
C5_OverallUnique ==
    LET recs == get_overall_records(0)
    IN  \A i, j \in 1..Len(recs) :
            (/\ CompanyKey(recs[i]) = CompanyKey(recs[j])
             /\ _normalize_profile_url(recs[i].Follower_URL)
                    = _normalize_profile_url(recs[j].Follower_URL))
            => i = j

\* the on_status calls name every profile up to position n of the list
Visited(n) ==
    \A i \in 1..n :
        \E j \in 1..Len(statusLog) :
            /\ statusLog[j].kind = "name"
            /\ statusLog[j].who = DisplayName(profiles[i][1], profiles[i][2])

\* a step in which the fetch for the current profile raised
C7_Step ==
    /\ (last'.kind = "error") =>
          /\ storeVars' = storeVars
          /\ statusLog'[Len(statusLog')] =
                [kind |-> "error", who |-> DisplayName(last'.t[1], last'.t[2]),
                 err |-> last'.err]
          /\ profiles_processed' = profiles_processed
          /\ new_follows_list' = new_follows_list
          /\ new_unfollows_list' = new_unfollows_list
          /\ pc' = "loop" /\ idx' = idx + 1 /\ profiles' = profiles
    /\ (pc' = "returned") => Visited(Len(profiles))'

\* C7: when the fetch for a profile raises, nothing is written or deleted for it,
\* on_status reports the error with the profile's name, the profile adds nothing
\* to profiles_processed or to the result lists, and the loop goes on with the
\* next profile, so that a pass that returns has visited every profile.
C7_FetchFailureSkipsProfile == [][C7_Step]_vars

\* the fetch of the first of two profiles raised, the second was processed and
\* the pass returned
C7_Witness ==
    /\ pc = "returned" /\ Len(profiles) = 2
    /\ statusLog[2].kind = "error"
    /\ profiles_processed = 1

\* a fetch of the pass raised LinkedInAPIError
ApiErrorInPass ==
    \E j \in 1..Len(statusLog) :
        statusLog[j].kind = "error" /\ statusLog[j].err = "LinkedInAPIError"

\* C9: when the remote client raised LinkedInAPIError during a pass, the worker
\* emits the api_error signal.
C9_ApiErrorReachesUI ==
    (pc = "emitted" /\ ApiErrorInPass) =>
        \E j \in 1..Len(signals) : signals[j].sig = "api_error"

\* C10: no error other than LinkedInAPIError escapes run_scrape.
C10_OnlyApiErrorEscapes == pc = "raised" => exc = "LinkedInAPIError"

(***************************************************************************)
(* Properties of the remote client                                         *)
(***************************************************************************)
\* a step of get_followed_companies that handles a 429 response, and the end
\* of a call in which all attempts for the page were answered with 429
C6_Step ==
    /\ (client_pc = "handle" /\ response.bound /\ response.status = 429) =>
          IF attempt < max_retries - 1
          THEN /\ client_pc' = "post"
               /\ page' = page
               /\ attempt' = attempt + 1
               /\ results' = results
               /\ client_exc' = ""
          ELSE /\ client_pc' = "done"
               /\ client_exc' = "LinkedInAPIError"
    /\ (client_pc' = "done" /\ limited' = max_retries) => client_exc' = "LinkedInAPIError"

\* C6: a 429 answer makes get_followed_companies request the same page again,
\* without advancing the page or touching the results; when all 15 attempts
\* for a page are answered 429 the call raises LinkedInAPIError, on any page.
C6_RateLimitRetriesSamePage == [][C6_Step]_vars

\* all 15 attempts for page 2 were answered 429 and the call raised, with the
\* results of page 1 collected
C6_Witness ==
    /\ client_pc = "done" /\ client_exc = "LinkedInAPIError"
    /\ page = 2 /\ limited = max_retries /\ results # <<>>

(***************************************************************************)
(* Properties of run control                                               *)
(***************************************************************************)
\* C8: at most one ScrapeWorker runs at any time, under every interleaving of
\* the UI thread and the scheduler's thread around the check and the set of
\* _running.
C8_OnePassAtATime == workers <= 1

(***************************************************************************)
(* Remote client: failures and the end of the pagination                   *)
(***************************************************************************)
\* C11: when every attempt made for page 1 was a network or parse failure
\* (no request answered, an HTTP error status, a body that is not JSON), the
\* call ends with LinkedInAPIError: no other exception and no list.
C11_TransientFailureOnFirstPage ==
    (client_pc = "done" /\ page = 1 /\ trace.failed_at = 1) =>
        client_exc = "LinkedInAPIError"

\* C12: when pages 1..k were answered and every attempt made for page k+1 was
\* a network or parse failure, the call returns, without raising, exactly the
\* items of the answered pages, each once and in order.
C12_TransientFailureAfterFirstPage ==
    (client_pc = "done" /\ trace.failed_at > 1) =>
        /\ client_exc = ""
        /\ results = trace.served

C13_Step ==
    /\ client_pc' # "idle" => page' \in {page, page + 1}
    /\ client_pc' = "post" => page' <= total_pages'
    /\ (client_pc = "page" /\ ~data.none /\ data.success /\ data.items = <<>>) =>
          client_pc' = "done"

\* C13: the pages are requested in increasing order, a page is requested only
\* while its number does not exceed the declared total, and after a page that
\* came back with no items no further page is requested.
C13_PaginationEnd == [][C13_Step]_vars

C14_Step ==
    (client_pc = "page" /\ ~data.none /\ ~data.success) =>
        /\ client_pc' = "done"
        /\ client_exc' = ""
        /\ page = 1 => results' = <<>>
        /\ page > 1 => results' = results

\* C14: a JSON body whose success flag is false ends the call without an
\* exception: with the empty list on page 1, with the items collected from
\* the earlier pages on a later page.
C14_UnsuccessfulResponse == [][C14_Step]_vars

C14_Witness ==
    /\ client_pc = "done" /\ client_exc = ""
    /\ ~data.none /\ ~data.success
    /\ page = 2 /\ results # <<>>

(***************************************************************************)
(* Profiles: removal cascade and identity                                  *)
(***************************************************************************)
\* the follower-URL key of a row of Overall, New Follows or New Unfollows
FollowerKeyOfRow(row) == _normalize_profile_url(_parse_hyperlink_cell(row[2])[1])

\* the rows of a sheet that belong to other followers than key, in their order
RowsOfOthers(sheet, key) ==
    AtPositions(sheet, {i \in 1..Len(sheet) : FollowerKeyOfRow(sheet[i]) # key})

\* a removal of the profile with key last'.key in which no store call failed
C15_Step ==
    (last'.kind = "remove" /\ faults' = faults) =>
        /\ \A i \in 1..Len(profilesSheet') :
              _normalize_profile_url(profilesSheet'[i][2]) # last'.key
        /\ overallSheet' = RowsOfOthers(overallSheet, last'.key)
        /\ newFollowsSheet' = RowsOfOthers(newFollowsSheet, last'.key)
        /\ newUnfollowsSheet' = RowsOfOthers(newUnfollowsSheet, last'.key)

\* C15: after remove_profile_and_related_records(p) returned true and no store
\* call failed, Profiles has no row for p, and Overall, New Follows and New
\* Unfollows hold exactly the rows of the other followers, in their order.
C15_RemovalCascade == [][C15_Step]_vars

\* C16: no two rows of Profiles share a normalized key.
C16_ProfileUnique ==
    \A i, j \in 1..Len(profilesSheet) :
        _normalize_profile_url(profilesSheet[i][2]) = _normalize_profile_url(profilesSheet[j][2])
            => i = j

(***************************************************************************)
(* Event rows (New Follows, New Unfollows)                                 *)
(***************************************************************************)
IsPrefix(s, t) == Len(s) <= Len(t) /\ SubSeq(t, 1, Len(s)) = s

C17_AmendedStep ==
    /\ last'.kind # "remove" =>
          /\ IsPrefix(newFollowsSheet, newFollowsSheet')
          /\ IsPrefix(newUnfollowsSheet, newUnfollowsSheet')
    /\ last'.kind = "remove" =>
          /\ newFollowsSheet' \in {newFollowsSheet, RowsOfOthers(newFollowsSheet, last'.key)}
          /\ newUnfollowsSheet' \in
                {newUnfollowsSheet, RowsOfOthers(newUnfollowsSheet, last'.key)}

C18_WriteBudget ==
    (last.kind \in {"initial", "incremental"} /\ last.plan = NoFault) =>
        /\ last.appends <= 3
        /\ last.deletes <= 1

(***************************************************************************)
(* Batch operations of the adapter                                         *)
(***************************************************************************)
\* C19: remove_from_overall_by_row_indices, whatever the list, removes exactly
\* the data rows that stood at the listed row numbers greater than 1, each
\* once, and issues at most one batch whose requests are the distinct listed
\* rows greater than 1 in descending order.
C19_RemoveRowsExact ==
    (call.op = "remove_rows" /\ ~call.fault) =>
        LET listed == {r \in {call.rows[i] : i \in 1..Len(call.rows)} : r > 1}
        IN  /\ overallSheet =
                  AtPositions(call.before,
                              {i \in 1..Len(call.before) : (i + 1) \notin listed})
            /\ call.writes = IF listed = {} THEN 0 ELSE 1
            /\ {call.requests[i] : i \in 1..Len(call.requests)} = listed
            /\ \A i \in 1..(Len(call.requests) - 1) : call.requests[i] > call.requests[i + 1]

\* two rows were listed, smallest first, and removed
C19_Witness ==
    /\ call.op = "remove_rows" /\ ~call.fault
    /\ call.rows = <<2, 3>>
    /\ Len(call.before) = 3 /\ Len(overallSheet) = 1

\* the sheet a batch append writes to
SheetOfCall ==
    CASE call.op = "append_overall" -> overallSheet
      [] call.op = "append_new_follows" -> newFollowsSheet
      [] call.op = "append_new_unfollows" -> newUnfollowsSheet
      [] OTHER -> <<>>

\* a row holds a record: its cells read back as the record's name, URL and
\* dates (a date is stored as its day serial)
RowHoldsRecord(row, record) ==
    /\ Len(row) = Len(record) - 2
    /\ IF record[2] = <<>> THEN row[1] = record[1]
       ELSE _parse_hyperlink_cell(row[1]) = <<record[2], record[1]>>
    /\ _parse_hyperlink_cell(row[2]) = <<record[4], record[3]>>
    /\ \A k \in 3..Len(row) : excel_serial_to_date(row[k]) = excel_serial_to_date(record[k + 2])

\* the rows a batch append adds are its records, in their order
BatchRowsAdded ==
    /\ Len(SheetOfCall) = Len(call.before) + Len(call.records)
    /\ SubSeq(SheetOfCall, 1, Len(call.before)) = call.before
    /\ \A i \in 1..Len(call.records) :
          RowHoldsRecord(SheetOfCall[Len(call.before) + i], call.records[i])

AppendOps == {"append_overall", "append_new_follows", "append_new_unfollows"}

\* C20: each batch append makes exactly one store write request per call,
\* whatever the number of records, and adds its records as rows in their order.
C20_OneWritePerBatch ==
    (call.op \in AppendOps /\ ~call.fault) =>
        /\ call.writes = 1
        /\ BatchRowsAdded

\* C20 (amended): with no store failure a batch append makes exactly one store
\* write request for a list of one or more records and none for the empty
\* list, and adds its records as rows in their order.
C20_OneWritePerNonEmptyBatch ==
    (call.op \in AppendOps /\ ~call.fault) =>
        /\ call.writes = IF call.records = <<>> THEN 0 ELSE 1
        /\ BatchRowsAdded

\* two records were appended by one call to a sheet that held a row
C20_Witness ==
    /\ call.op \in AppendOps /\ ~call.fault
    /\ Len(call.records) = 2 /\ Len(call.before) = 1
    /\ Len(SheetOfCall) = 3

(***************************************************************************)
(* Store failures                                                          *)
(***************************************************************************)
\* the store calls of a loop iteration that write a row or a cell
WriteSites == {"append_overall", "append_follows", "append_unfollows", "flag_write"}

\* the step is a loop iteration or a profile removal; last'.plan tells which
\* store call of the iteration was answered with failures
C21_Step ==
    /\ last'.kind \in {"initial", "incremental"} =>
          /\ \A s \in Sites :
                /\ _run_ws_write_with_retry(last'.plan[s]).attempts <= 12
                /\ _batch_update_with_retry(last'.plan[s]).attempts <= 12
          /\ last'.exc # "" =>
                /\ last'.exc = "RuntimeError"
                /\ \E s \in WriteSites : last'.plan[s] > 0
          /\ (last'.plan["append_overall"] > 0
                /\ (IF last'.kind = "initial" THEN last'.fetch ELSE last'.new_follows) # <<>>) =>
                /\ last'.exc = "RuntimeError"
                /\ overallSheet' = overallSheet
          /\ (last'.plan["append_follows"] > 0 /\ last'.new_follows # <<>>) =>
                /\ last'.exc = "RuntimeError"
                /\ newFollowsSheet' = newFollowsSheet
          /\ (last'.plan["flag_write"] > 0 /\ last'.kind = "initial") =>
                /\ last'.exc = "RuntimeError"
                /\ profilesSheet' = profilesSheet
          /\ (last'.plan["delete"] > 0 /\ last'.removed # {}) =>
                /\ last'.exc = ""
                /\ Len(overallSheet') = Len(overallSheet) + Len(last'.new_follows)
    /\ (last'.kind = "remove" /\ faults' = faults + 1) =>
          /\ pc' = "idle" /\ exc' = exc
          /\ \/ profilesSheet' = profilesSheet
             \/ overallSheet' = overallSheet
             \/ newFollowsSheet' = newFollowsSheet
             \/ newUnfollowsSheet' = newUnfollowsSheet

\* C21: a store write or delete is attempted at most 12 times; an append or
\* the flag update whose attempts all fail raises RuntimeError to the caller
\* and writes nothing; a row delete (unfollow removal, profile removal,
\* cascade) whose attempts all fail returns normally and leaves the rows.
C21_StoreFailurePolicy == [][C21_Step]_vars

\* the deletes of an iteration failed: the pass went on, the rows are still there
C21_Witness ==
    /\ last.kind = "incremental"
    /\ last.plan["delete"] > 0 /\ last.removed # {}
    /\ last.exc = "" /\ pc = "loop"

(***************************************************************************)
(* Reads of a sheet whose header row is not the expected one               *)
(***************************************************************************)
\* C22: get_profiles returns the empty list when the header row of Profiles
\* is not the expected one, and otherwise the rows whose profile cell is not
\* blank, in their order; get_overall_records returns the empty list when the
\* first four header cells of Overall are not the expected ones, and
\* otherwise one record per row.
C22_HeaderMismatchReadsEmpty ==
    /\ call.op = "get_profiles" =>
          IF profilesHeader # PROFILES_HEADERS THEN call.result = <<>>
          ELSE LET kept == {i \in 1..Len(profilesSheet) : Strip(profilesSheet[i][2]) # <<>>}
               IN  /\ Len(call.result) = Cardinality(kept)
                   /\ \A k \in 1..Len(call.result) :
                         \E i \in kept :
                            /\ Cardinality({j \in kept : j <= i}) = k
                            /\ call.result[k][1] = Strip(profilesSheet[i][2])
                            /\ call.result[k][2] = Strip(profilesSheet[i][1])
    /\ call.op = "get_overall_records" =>
          IF SubSeq(overallHeader, 1, 4) # SubSeq(OVERALL_HEADERS, 1, 4)
          THEN call.result = <<>>
          ELSE Len(call.result) = Len(overallSheet)

\* Profiles holds rows under a header row with a column missing, and
\* get_profiles returned the empty list
C22_Witness ==
    /\ call.op = "get_profiles"
    /\ profilesHeader # PROFILES_HEADERS /\ profilesSheet # <<>>
    /\ call.result = <<>>

(***************************************************************************)
(* Properties of the HYPERLINK cell encoding                               *)
(***************************************************************************)
\* C23: for every url that is not empty and every label, double quotes in
\* either included, _parse_hyperlink_cell(_hyperlink_formula(url, label))
\* is exactly (url, label).
C23_HyperlinkRoundTrip ==
    call.op = "_parse_hyperlink_cell" => call.result = call.records

\* what the code guarantees: the round trip is exact when the url holds no
\* double quote, whatever the label holds
C23_RoundTripOfQuoteFreeUrl ==
    (call.op = "_parse_hyperlink_cell" /\ FindChar(call.records[1], "\"", 1) > Len(call.records[1]))
        => call.result = call.records

(***************************************************************************)
(* Properties of key normalisation                                         *)
(***************************************************************************)
\* C24: a profile URL and the bare handle normalise to the same follower
\* key, in the adapter and in the engine, and a company URL and the bare
\* slug to the same company key, whatever the letter case, the trailing
\* slash and the query string.
C24_OneKeyPerProfileAndCompany ==
    /\ call.op = "_normalize_profile_url" =>
          call.result = <<ProfileJohnSlug, ProfileJohnSlug>>
    /\ call.op = "_normalize_company_url" => call.result = << <<"a","c","m","e">> >>

\* what the code guarantees: one key, unless the query string itself holds
\* the path segment ("/in/", "/company/") the key is cut at
C24_OneKeyUnlessSegmentInQuery ==
    /\ (call.op = "_normalize_profile_url"
            /\ Cardinality(Occurrences(Lower(call.records[1]), IN_SEGMENT)) <= 1) =>
          call.result = <<ProfileJohnSlug, ProfileJohnSlug>>
    /\ (call.op = "_normalize_company_url"
            /\ Cardinality(Occurrences(Lower(call.records[1]), COMPANY_SEGMENT)) <= 1) =>
          call.result = << <<"a","c","m","e">> >>

\* C25: every row of Overall was written by the engine for a company c and a
\* follower P; the key the engine computes for c when it tests membership,
\* (lower-cased company name, follower key), is an element of the index
\* get_overall_set builds over the rows.
C25_EngineKeyInOverallSet ==
    \A records \in {get_overall_records(0)} :
       \A i \in 1..Len(records) :
          <<Lower(Strip(records[i].Company_Name)),
            _get_username_from_profile_url(records[i].Follower_URL)>>
             \in get_overall_set(records)

(***************************************************************************)
(* Properties of the unfollow records                                      *)
(***************************************************************************)
\* the Overall records an incremental iteration is about to remove, as read
\* before the iteration, and the records it hands to
\* append_new_unfollows_batch for them
RemovedRecords == AtPositions(get_overall_records(0), {r - 1 : r \in last'.removed})
UnfollowEvents == NewUnfollowsBatch(DisplayName(last'.t[1], last'.t[2]), RemovedRecords)

\* C26: each unfollow record carries the initial-scrape date and the
\* date-followed of the removed Overall row, each converted to a calendar
\* date when it is a day serial and unchanged otherwise, and the day of the
\* pass as unfollow date.
C26_Step ==
    (last'.kind = "incremental" /\ last'.removed # {}) =>
        \A olds \in {RemovedRecords} : \A events \in {UnfollowEvents} :
           \A i \in 1..Len(events) :
              /\ events[i][5] = excel_serial_to_date(olds[i].Initial_Scrape_Date)
              /\ events[i][6] = excel_serial_to_date(olds[i].Date_Followed)
              /\ events[i][7] = Today
C26_UnfollowDatesConverted == [][C26_Step]_vars

\* what the code guarantees: the date-followed is converted, the
\* initial-scrape date is handed on as it was read
C26_CodeStep ==
    (last'.kind = "incremental" /\ last'.removed # {}) =>
        \A olds \in {RemovedRecords} : \A events \in {UnfollowEvents} :
           /\ Len(events) = Cardinality(last'.removed)
           /\ \A i \in 1..Len(events) :
                 /\ events[i][5] = olds[i].Initial_Scrape_Date
                 /\ events[i][6] = excel_serial_to_date(olds[i].Date_Followed)
                 /\ events[i][7] = Today
C26_OnlyDateFollowedConverted == [][C26_CodeStep]_vars

(***************************************************************************)
(* Order of the iterations of a pass                                       *)
(***************************************************************************)
\* the on_status calls that announce a profile, each made right before the
\* fetch for that profile
Announced == SelectSeq(statusLog, LAMBDA e : e.kind = "name")

\* C27: a pass handles the profiles one after the other in the order of the
\* list: the k-th fetch of the pass is the one for the k-th profile; an
\* iteration is the fetch for the profile at the loop position followed by
\* all its store reads and writes, after which the loop position moves to
\* the next profile (or run_scrape is left by an exception); between two
\* iterations the pass touches no sheet.
C27_Step ==
    /\ pc = "loop" =>
          /\ Len(Announced) = idx - 1
          /\ \A k \in 1..Len(Announced) :
                Announced[k].who = DisplayName(profiles[k][1], profiles[k][2])
    /\ iters' = iters + 1 =>
          /\ pc = "loop" /\ idx \in 1..Len(profiles)
          /\ last'.kind \in {"initial", "incremental", "error"}
          /\ last'.t = profiles[idx]
          /\ profiles' = profiles
          /\ IF pc' = "loop" THEN idx' = idx + 1 ELSE pc' = "raised" /\ idx' = idx
    /\ (pc = "loop" /\ iters' = iters /\ edits' = edits /\ last'.kind # "remove") =>
          /\ storeVars' = storeVars
          /\ idx' = idx
C27_SequentialInListOrder == [][C27_Step]_vars

\* the pass has handled the first of two profiles and then the second, and
\* wrote to the store for the second
C27_Witness ==
    /\ pc = "loop" /\ Len(profiles) = 2 /\ idx = 3
    /\ profiles[1] # profiles[2]
    /\ last.kind \in {"initial", "incremental"} /\ last.t = profiles[2]
    /\ last.appends > 0

(***************************************************************************)
(* Properties of the scheduler's time of day                               *)
(***************************************************************************)
\* C28: the scheduler starts with Monday at the configured hour and minute,
\* and once the time of day was changed in the UI, the job's trigger and the
\* reported next-run time use the time the UI shows.
C28_TimeOfDayFollowsUI ==
    /\ sched.trigger = sched.edit
    /\ sched.status = sched.edit
    /\ <<sched._hour, sched._minute>> = sched.edit

\* what the code guarantees: the scheduler keeps the configured time of day
\* whatever the UI shows
C28_TimeOfDayFixed ==
    /\ sched.trigger = <<AUTO_SCRAPE_HOUR, AUTO_SCRAPE_MINUTE>>
    /\ sched.status = <<AUTO_SCRAPE_HOUR, AUTO_SCRAPE_MINUTE>>
    /\ <<sched._hour, sched._minute>> = <<AUTO_SCRAPE_HOUR, AUTO_SCRAPE_MINUTE>>

(***************************************************************************)
(* Properties of a pass on what the client returned                        *)
(***************************************************************************)
\* get_followed_companies has just returned to an iteration a list that
\* lacks the pages from `page` on: the attempts for a page after page 1 were
\* used up and the loop was left with data = None (lines 104-106, 116-118)
PartialFetch ==
    /\ client_pc = "idle"
    /\ client_exc = ""
    /\ page > 1 /\ page <= total_pages
    /\ data.none

\* C29: when get_followed_companies returned a partial result because a
\* page after page 1 failed, the iteration records no unfollow and deletes
\* no Overall row.
C29_PartialFetchNoUnfollow ==
    (PartialFetch /\ last.kind = "incremental") =>
        /\ last.new_unfollows = <<>>
        /\ last.removed = {}
        /\ last.deletes = 0

(***************************************************************************)
(* Properties of the initial-scrape branch                                 *)
(***************************************************************************)
\* C30: an iteration that takes the initial-scrape branch adds nothing to
\* the new-follow and new-unfollow lists, writes no row to New Follows or
\* New Unfollows and deletes no row of Overall (the rows Overall held are
\* still its first rows), whatever Overall holds.
C30_Step ==
    last'.kind = "initial" =>
        /\ new_follows_list' = new_follows_list
        /\ new_unfollows_list' = new_unfollows_list
        /\ last'.new_follows = <<>> /\ last'.new_unfollows = <<>>
        /\ newFollowsSheet' = newFollowsSheet
        /\ newUnfollowsSheet' = newUnfollowsSheet
        /\ IsPrefix(overallSheet, overallSheet')
        /\ last'.deletes = 0 /\ last'.removed = {}
C30_InitialScrapeNoDiff == [][C30_Step]_vars

\* an initial scrape has run for a follower Overall already held rows of,
\* with a fetch that lacks one of their companies and brings a new one
C30_Witness ==
    /\ last.kind = "initial" /\ last.exc = ""
    /\ last.before # {}
    /\ \E c \in last.before :
          \A i \in 1..Len(last.fetch) : CompanyName(last.fetch[i]) # c.name
    /\ \E i \in 1..Len(last.fetch) :
          \A c \in last.before : CompanyName(last.fetch[i]) # c.name

(***************************************************************************)
(* Properties of the removal of unfollowed rows                            *)
(***************************************************************************)
\* the data rows of Overall (positions) whose record is reported as
\* unfollowed by the iteration that is being taken
ReportedRows ==
    {i \in 1..Len(overallSheet) :
        \E k \in 1..Len(last'.new_unfollows) :
           /\ OverallRecordOf(overallSheet[i]).Company_Name = last'.new_unfollows[k].Company_Name
           /\ OverallRecordOf(overallSheet[i]).Company_URL = last'.new_unfollows[k].Company_URL
           /\ OverallRecordOf(overallSheet[i]).Follower_URL = last'.new_unfollows[k].Follower_URL}

\* C31: the Overall rows an incremental iteration deletes are exactly the
\* rows of the records it reports as unfollowed: afterwards Overall is the
\* rows it held without those rows, followed by the rows appended for the
\* new follows, also when Overall holds empty rows get_overall_records skips.
C31_Step ==
    (last'.kind = "incremental" /\ last'.exc = "" /\ last'.plan = NoFault) =>
        \A kept \in {(1..Len(overallSheet)) \ ReportedRows} :
           /\ IsPrefix(AtPositions(overallSheet, kept), overallSheet')
           /\ Len(overallSheet') = Cardinality(kept) + Len(last'.new_follows)
C31_RemovalHitsUnfollowedRows == [][C31_Step]_vars

\* what the code guarantees: the same, as long as Overall holds no row that
\* get_overall_records skips
C31_StepWithoutSkippedRows ==
    (\A i \in 1..Len(overallSheet) : overallSheet[i] # BlankOverallRow) => C31_Step
C31_ExactWithoutSkippedRows == [][C31_StepWithoutSkippedRows]_vars

(***************************************************************************)
(* Properties of the initial-scraped flag                                  *)
(***************************************************************************)
\* the Profiles rows (positions) of the profile of the iteration being taken
RowsOfCurrent ==
    {i \in 1..Len(profilesSheet) : _normalize_profile_url(profilesSheet[i][2]) = last'.key}

\* C32: an iteration sets the initial-scraped flag of a profile only after
\* its initial Overall batch was written, and an initial-scrape iteration
\* that ends without an exception (so that run_scrape can return normally)
\* leaves the flag of the profile at "Yes".
C32_Step ==
    /\ (iters' = iters + 1 /\ profilesSheet' # profilesSheet) =>
          /\ last'.kind = "initial"
          /\ Len(overallSheet') = Len(overallSheet) + Len(last'.fetch)
    /\ (last'.kind = "initial" /\ last'.exc = "") =>
          \A i \in RowsOfCurrent : Lower(Strip(profilesSheet'[i][3])) = YES_LOWER
C32_FlagFollowsSeed == [][C32_Step]_vars

\* what the code guarantees when the store answers every call and Profiles
\* holds the profile once: the flag is set after the batch is written
C32_StepWithoutFailure ==
    (last'.plan = NoFault /\ Cardinality(RowsOfCurrent) <= 1) => C32_Step
C32_FlagFollowsSeedWithoutFailure == [][C32_StepWithoutFailure]_vars

(***************************************************************************)
(* Properties of the unfollow events and the rows they are about           *)
(***************************************************************************)
\* the data rows of Overall (positions) left after the iteration being taken
\* whose record is one the iteration reported as unfollowed
ReportedRowsLeft ==
    {i \in 1..Len(overallSheet') :
        \E k \in 1..Len(last'.new_unfollows) :
           /\ OverallRecordOf(overallSheet'[i]).Company_Name = last'.new_unfollows[k].Company_Name
           /\ OverallRecordOf(overallSheet'[i]).Company_URL = last'.new_unfollows[k].Company_URL
           /\ OverallRecordOf(overallSheet'[i]).Follower_URL = last'.new_unfollows[k].Follower_URL}

\* C33: when an iteration that ends without an exception has written an
\* unfollow event for an Overall row, the row is no longer in Overall.
C33_Step ==
    (last'.kind = "incremental" /\ last'.exc = "" /\ last'.new_unfollows # <<>>) =>
        ReportedRowsLeft = {}
C33_UnfollowedRowIsGone == [][C33_Step]_vars

\* what the code guarantees: the row is gone when the store answered the
\* delete requests
C33_StepWithoutFailure ==
    last'.plan["delete"] = 0 => C33_Step
C33_UnfollowedRowIsGoneWithoutFailure == [][C33_StepWithoutFailure]_vars

(***************************************************************************)
(* Properties of Overall against New Follows                               *)
(***************************************************************************)
\* C34: every Overall row that has a date-followed has a row in New Follows
\* with the same company cell and the same follower cell.
C34_FollowRowsPaired ==
    \A i \in 1..Len(overallSheet) :
       overallSheet[i][4] # Blank =>
          \E j \in 1..Len(newFollowsSheet) :
             /\ newFollowsSheet[j][1] = overallSheet[i][1]
             /\ newFollowsSheet[j][2] = overallSheet[i][2]

\* what the code guarantees: the rows are paired as long as the store has
\* answered every call
C34_FollowRowsPairedWithoutFailure ==
    faults = 0 => C34_FollowRowsPaired

(***************************************************************************)
(* Properties of a pass that a store write ends                            *)
(***************************************************************************)
\* C35: when a store write raises in an iteration, every row the sheets held
\* is still there and so are the rows the iteration wrote before the
\* failing call (the Overall rows of the new follows when the append to New
\* Follows raises; those and the New Follows rows when the append to New
\* Unfollows raises; the Overall batch when the flag update raises); no row
\* is deleted; run_scrape is left, and until the worker has ended no further
\* profile is processed and no sheet is touched.
C35_Step ==
    /\ (last'.kind \in {"initial", "incremental"} /\ last'.exc # "") =>
          /\ pc' = "raised" /\ idx' = idx
          /\ IsPrefix(overallSheet, overallSheet')
          /\ IsPrefix(newFollowsSheet, newFollowsSheet')
          /\ IsPrefix(newUnfollowsSheet, newUnfollowsSheet')
          /\ last'.deletes = 0 /\ last'.removed = {}
          /\ (last'.kind = "incremental" /\ last'.plan["append_overall"] = 0) =>
                Len(overallSheet') = Len(overallSheet) + Len(last'.new_follows)
          /\ (last'.kind = "incremental" /\ last'.plan["append_unfollows"] > 0) =>
                Len(newFollowsSheet') = Len(newFollowsSheet) + Len(last'.new_follows)
          /\ (last'.kind = "initial" /\ last'.plan["flag_write"] > 0) =>
                Len(overallSheet') = Len(overallSheet) + Len(last'.fetch)
    /\ pc = "raised" =>
          /\ storeVars' = storeVars
          /\ iters' = iters /\ idx' = idx
          /\ pc' = "emitted"
C35_NoRollback == [][C35_Step]_vars

\* the append to New Follows raised after the Overall rows of the new
\* follows were written, with a profile left in the list that is not processed
C35_Witness ==
    /\ pc = "raised"
    /\ last.kind = "incremental" /\ last.exc = "RuntimeError"
    /\ last.plan["append_follows"] > 0 /\ last.new_follows # <<>>
    /\ idx < Len(profiles)
    /\ \E i \in 1..Len(overallSheet) : overallSheet[i][4] # Blank

(***************************************************************************)
(* Properties of the running flag                                          *)
(***************************************************************************)
\* C36: once a pass has been started, whatever run_scrape does in the worker
\* (it returns, or LinkedInAPIError or another exception leaves it),
\* finished_with_result is delivered and _running becomes false again, so
\* that the Run button can start a pass anew.
C36_RunningReleased == _running ~> (~_running /\ Triggered("ui"))

\* a pass was started, its worker ended and the flag is released
C36_Witness ==
    /\ started > 0
    /\ workers = 0 /\ finished = 0
    /\ ~_running

(***************************************************************************)
(* Properties of the schedule without a selected day                       *)
(***************************************************************************)
\* C37: after set_days with no day and start(), no job remains registered with
\* the scheduler, so that the scheduler does not invoke the run callback.
C37_NoDayNoJob == _selected_days = {} => ~job

\* C37 as steps: with no day selected the scheduler thread does not enter
\* _start_run.
C37_NoDayNoTrigger ==
    [][_selected_days = {} =>
          ~(thread_pc["scheduler"] = "idle" /\ thread_pc'["scheduler"] = "checked")]_vars

(***************************************************************************)
(* Properties of the work of one fetch                                     *)
(***************************************************************************)
\* the call is inside its loop
InFetch == client_pc \in {"post", "handle", "page"}

\* one attempt handled: the same page is tried again with the next of the 15
\* attempts, the call ends by raising, or the page is left; a page left with a
\* successful body is followed by the next page or by the return
C38_Step ==
    /\ client_pc = "handle" =>
          \/ client_pc' = "post" /\ page' = page /\ attempt' = attempt + 1
          \/ client_pc' = "done" /\ client_exc' # ""
          \/ client_pc' = "page" /\ page' = page /\ attempt' = attempt
    /\ client_pc = "page" =>
          \/ client_pc' = "done"
          \/ client_pc' = "post" /\ page' = page + 1 /\ attempt' = 0
    /\ (client_pc = "page" /\ ~data.none /\ data.success) => page' = page + 1

\* C38: with the declared totalPages bounded (by MaxPages), a call of
\* get_followed_companies makes at most max_retries attempts per page, each
\* attempt retries the same page, leaves the page or ends the call, a page
\* answered successfully is not requested again, and the call returns or
\* raises.
C38_FetchTerminates ==
    /\ [][C38_Step]_vars
    /\ [](InFetch => attempt < max_retries /\ page <= MaxPages)
    /\ (InFetch ~> client_pc = "done")

\* the call ended on a later page after all attempts for it were used
C38_Witness ==
    /\ client_pc = "done"
    /\ page > 1
    /\ attempt = max_retries - 1

====
